---- MODULE Spec2Model ----
(***************************************************************************)
(* GameShelf: the Steam library synchronisation layer.                     *)
(*                                                                         *)
(* State: the browser's localStorage keys of each user                     *)
(* (gameshelf-steam-data-<u>, gameshelf-steam-games-<u>,                   *)
(* gameshelf-library-entries-<u>), the data gateway's LibraryEntry and     *)
(* User tables, the 'steamLibrarySynced' events dispatched so far, and the  *)
(* sync handler that is in flight with its position (task).                *)
(*                                                                         *)
(* GameDatabase, the catalog client: its cache records in localStorage     *)
(* (cache), the clock Date.now() reads, the calls made to the trending     *)
(* endpoint, and how the last catalog call settled.                        *)
(*                                                                         *)
(* AuthService: the signed-in user it holds, what its listener last heard,  *)
(* the identity gateway's account and session, the ids of the User rows,   *)
(* and the calls in flight, each at the await it is suspended on.  The     *)
(* my-games collection of the signed-in user (gameshelf-my-games-<u>).     *)
(*                                                                         *)
(* Optional values (null / undefined / a missing localStorage key) are     *)
(* None == <<>> and Some(x) == <<x>>.  Timestamps produced by new Date()   *)
(* are not represented.                                                    *)
(***************************************************************************)
EXTENDS Integers, Sequences, FiniteSets, TLC

VARIABLES
    upstream,   \* the games field the Steam relay gateway answers with
    lsData,     \* localStorage gameshelf-steam-data-<u>
    lsGames,    \* localStorage gameshelf-steam-games-<u>
    lsLib,      \* localStorage gameshelf-library-entries-<u>
    dbEntries,  \* data gateway: rows of the LibraryEntry table
    dbUser,     \* data gateway: Steam fields of the User rows
    events,     \* 'steamLibrarySynced' events dispatched on window
    task,       \* the SteamSync handler in flight and its position
    last,       \* how the most recent service call settled
    nSyncs,     \* sync handlers started so far
    nEdits,     \* user edits made so far
    nFaults,    \* failures of the gateways injected so far
    cache,      \* localStorage: the cache keys of GameDatabase, in key(i) order
    now,        \* Date.now(), in milliseconds
    nFetch,     \* calls made to the trending endpoint so far
    ret,        \* how the most recent GameDatabase call settled
    nCalls,     \* GameDatabase calls made so far
    viewArgs,   \* the arguments a derived view was computed from
    viewResult, \* the value the derived view returned
    currentUser,\* AuthService.currentUser: the id of the user held, if any
    heard,      \* isAuthenticated of the listener's last notification
    session,    \* identity gateway: a user is signed in on this browser
    account,    \* identity gateway: the account does not exist / awaits confirmation / is confirmed
    userIds,    \* data gateway: the ids of the rows of the User table
    procs,      \* AuthService calls in flight, each with the await it is at
    nAuth,      \* AuthService calls started so far
    quiet,      \* logout has resolved and no login, register or refresh was called since
    myGames     \* localStorage gameshelf-my-games-<u> of the signed-in user

\* the state of the Steam library layer
libraryVars == <<upstream, lsData, lsGames, lsLib, dbEntries, dbUser,
                 events, task, last, nSyncs, nEdits, nFaults>>

\* the state of the catalog client
catalogVars == <<cache, now, nFetch, ret, nCalls>>

\* a derived view and its inputs
viewVars == <<viewArgs, viewResult>>

\* the state of the auth service and of the gateways it talks to
authVars == <<currentUser, heard, session, account, userIds, procs, nAuth, quiet>>

\* the my-games collection
shelfVars == <<myGames>>

vars == <<libraryVars, catalogVars, viewVars, authVars, shelfVars>>

-----------------------------------------------------------------------------
(* Bounds of the model *)

MaxGames == 2

MaxSyncs == 2

MaxEdits == 1

MaxFaults == 1

BigPlaytime == 2000000000

MaxCalls == 3

MaxTicks == 3

\* the longest list of games the achievement view is given
MaxShelf == 11

\* the longest list of entries the activity feed is given
MaxFeed == 7

\* the longest playtime formatted, in minutes
MaxMinutes == 130

\* the longest achievement list whose progress is taken
MaxAchievements == 13

-----------------------------------------------------------------------------
(* Values *)

None == <<>>

Some(x) == <<x>>

NoName == "<null>"

Users == {"u1", "u2"}

\* the user signed in to this browser session, and the other one
Me == "u1"

Other == "u2"

\* the Steam account both users may connect
SteamId == "s1"

\* JavaScript truthiness of a nullable number: null, undefined and 0 are falsy
TruthyNum(o) == o # None /\ o[1] # 0

\* JavaScript truthiness of a nullable string: null, undefined and '' are falsy
TruthyStr(s) == s # NoName /\ s # ""

\* Math.round(n / 60) for a non-negative integer n
RoundDiv60(n) == (n + 30) \div 60

TitleOf(a) == IF a = 10 THEN "A" ELSE IF a = 20 THEN "B" ELSE "C"

MkGame(appId, name, total, recent, stats) ==
    [appId |-> appId, name |-> name, playtimeTotal |-> total,
     playtimeRecent |-> recent, hasStats |-> stats,
     iconUrl |-> "icon", logoUrl |-> "logo",
     lastPlayed |-> IF total > 0 THEN Some(1700000000) ELSE None]

\* the records the gateway may return for the game in slot i of the list (app
\* 10 * i): complete records with the playtime shapes of the status policy,
\* and partial records lacking an identifier or a name.  Odd and even slots
\* take different shapes, so that a list of two covers them all.
SlotRecords(i) ==
    LET a == 10 * i IN
    IF i % 2 = 1
    THEN { MkGame(Some(a), TitleOf(a), 120, 30, TRUE),
           MkGame(Some(a), TitleOf(a), 0, 30, FALSE),
           MkGame(None, TitleOf(a), 120, 30, TRUE),
           MkGame(Some(a), NoName, 120, 0, TRUE) }
    ELSE { MkGame(Some(a), TitleOf(a), BigPlaytime, 0, TRUE),
           MkGame(Some(a), TitleOf(a), 0, 0, FALSE),
           MkGame(Some(0), TitleOf(a), 120, 0, FALSE),
           MkGame(Some(a), "", 0, 0, FALSE) }

UpstreamLists ==
    UNION { { s \in [1..n -> UNION {SlotRecords(i) : i \in 1..n}] :
                \A i \in 1..n : s[i] \in SlotRecords(i) } : n \in 0..MaxGames }

\* the games field of the gateway's answer: null, or a list
UpstreamAnswers == {None} \cup {Some(l) : l \in UpstreamLists}

Statuses == {"playing", "finished", "paused", "dropped", "planning"}

\* achievement lists the gateway may return for a game
Ach(name, achieved) == [achieved |-> achieved, apiName |-> name]

AchLists == { <<>>, <<Ach("a1", TRUE), Ach("a2", FALSE)>> }

-----------------------------------------------------------------------------
(* Pure helpers of syncGameLibrary *)

\* the policy with the tests in the other order: recent playtime decides first
DeriveStatusRecentFirst(total, recent) ==
    IF recent > 0
    THEN "playing"
    ELSE (IF total > 0 THEN "paused" ELSE "planning")

\* the status policy (the same lines in syncGameLibrary and in
\* storeGamesInDatabase)
DeriveStatus(total, recent) ==
    IF total > 0
    THEN (IF recent > 0 THEN "playing" ELSE "paused")
    ELSE "planning"

\* the filter without its test of the name
IsValidGameByIdOnly(g) == TruthyNum(g.appId)

\* games.filter(game => game.appId && game.name)
IsValidGame(g) == TruthyNum(g.appId) /\ TruthyStr(g.name)

ValidGames(games) == SelectSeq(games, IsValidGame)

GameIdOf(appId) == <<"steam-game-", appId>>

\* new Date(lastPlayed * 1000).toISOString(), or null
LastPlayedIso(lp) == IF TruthyNum(lp) THEN Some(<<"iso", lp[1]>>) ELSE None

\* the library entry syncGameLibrary builds for the local mirror
ToLibraryEntry(g, userId) ==
    [userId |-> userId,
     id |-> <<"steam-", g.appId[1]>>,
     gameId |-> GameIdOf(g.appId[1]),
     gameTitle |-> g.name,
     gameCover |-> g.logoUrl,
     status |-> DeriveStatus(g.playtimeTotal, g.playtimeRecent),
     rating |-> None,
     notes |-> Some(""),
     steamPlaytimeTotal |-> g.playtimeTotal,
     steamPlaytimeRecent |-> g.playtimeRecent,
     steamLastPlayed |-> LastPlayedIso(g.lastPlayed),
     isFromSteam |-> TRUE,
     steamAppId |-> g.appId,
     hoursPlayed |-> Some(RoundDiv60(g.playtimeTotal)),
     steamAchievements |-> None]

ToLibraryEntries(valid, userId) ==
    [i \in 1..Len(valid) |-> ToLibraryEntry(valid[i], userId)]

\* the row storeGamesInDatabase creates in the LibraryEntry table; the gateway
\* generates the id
ToDbEntry(g, userId, rowId) ==
    [userId |-> userId,
     id |-> <<"row-", rowId>>,
     gameId |-> GameIdOf(g.appId[1]),
     gameTitle |-> g.name,
     gameCover |-> IF g.logoUrl # "" THEN g.logoUrl ELSE g.iconUrl,
     status |-> DeriveStatus(g.playtimeTotal, g.playtimeRecent),
     rating |-> None,
     notes |-> None,
     steamPlaytimeTotal |-> g.playtimeTotal,
     steamPlaytimeRecent |-> g.playtimeRecent,
     steamLastPlayed |-> LastPlayedIso(g.lastPlayed),
     isFromSteam |-> TRUE,
     steamAppId |-> None,
     hoursPlayed |-> None,
     steamAchievements |-> None]

-----------------------------------------------------------------------------
(* State *)

Idle == [i |-> 0, games |-> <<>>, pc |-> "idle", user |-> Me]

\* how a service call settled: the promise resolved or rejected, what failed
\* underneath ("none" when nothing did), and the list a gateway returned
Settled(call, user, result, cause, data) ==
    [user |-> user, call |-> call, result |-> result, cause |-> cause,
     data |-> data]

\* the profile connectSteamProfile stores under gameshelf-steam-data-<u>
SteamData(u) == [userId |-> u, steamId |-> SteamId, steamConnected |-> TRUE]

\* the Steam fields updateUserSteamProfile writes to the User row
UserSteam == [steamId |-> SteamId, steamConnected |-> TRUE]

\* the records another session of this browser left for the other user, who
\* had connected and synced one game that was played before
OtherGame == MkGame(Some(70), "Z", 120, 0, TRUE)

LibraryInit ==
    /\ upstream \in UpstreamAnswers
    /\ lsData = [u \in Users |-> IF u = Me THEN None ELSE Some(SteamData(u))]
    /\ lsGames = [u \in Users |-> IF u = Me THEN None ELSE Some(<<OtherGame>>)]
    /\ lsLib = [u \in Users |->
                  IF u = Me THEN None ELSE Some(ToLibraryEntries(<<OtherGame>>, u))]
    /\ dbEntries = <<ToDbEntry(OtherGame, Other, 1)>>
    /\ dbUser = [u \in Users |-> IF u = Me THEN None ELSE Some(UserSteam)]
    /\ events = <<>>
    /\ task = Idle
    /\ last = Settled("none", Me, "resolved", "none", None)
    /\ nSyncs = 0
    /\ nEdits = 0
    /\ nFaults = 0

\* no catalog call made yet, the cache empty
CatalogInit ==
    /\ cache = <<>>
    /\ now = 0
    /\ nFetch = 0
    /\ ret = [op |-> "none"]
    /\ nCalls = 0

\* no derived view computed yet
ViewInit == viewArgs = None /\ viewResult = None

\* the auth service at rest: nobody signed in and no call in flight
AuthRest ==
    /\ currentUser = None
    /\ heard = FALSE
    /\ session = FALSE
    /\ account = "none"
    /\ userIds = {}
    /\ procs = {}
    /\ nAuth = 0
    /\ quiet = FALSE

\* an empty collection
ShelfInit == myGames = <<>>

Init == LibraryInit /\ CatalogInit /\ ViewInit /\ AuthRest /\ ShelfInit

\* the most rows the LibraryEntry table can hold
MaxRows == 1 + MaxGames * MaxSyncs

\* k more failures of a gateway happen in this step
Inject(k) == nFaults + k <= MaxFaults /\ nFaults' = nFaults + k

\* outcomes of one awaited call of the data client (client.models.X.op), as
\* the code tells them apart: it resolves ("ok") or it rejects ("throws")
DataOutcomes == {"ok", "throws"}

Cost(outcome) == IF outcome = "ok" THEN 0 ELSE 1

-----------------------------------------------------------------------------
(* storeGamesInDatabase *)

\* the outcomes of one iteration of the loop: Game.create, then
\* LibraryEntry.create, which is not reached ("skipped") when Game.create
\* rejects, the inner catch swallowing the rejection.  The Game table is read
\* by no operation and is not represented.
StoreOutcomes ==
    { [game |-> "resolves", entry |-> e] : e \in DataOutcomes }
    \cup { [game |-> "throws", entry |-> "skipped"] }

AllStored(n) == [k \in 1..n |-> [game |-> "resolves", entry |-> "ok"]]

StoreVectors(n) == [1..n -> StoreOutcomes]

RECURSIVE SumCost(_, _)
SumCost(outs, k) ==
    IF k > Len(outs) THEN 0
    ELSE (IF outs[k].entry = "ok" THEN 0 ELSE 1) + SumCost(outs, k + 1)

\* the LibraryEntry rows after the loop, from iteration k on.
\* LibraryEntry.create carries no id: the gateway makes a new row each time
RECURSIVE StoredRows(_, _, _, _, _)
StoredRows(valid, outs, userId, rows, k) ==
    IF k > Len(valid) THEN rows
    ELSE StoredRows(valid, outs, userId,
                    IF outs[k].entry = "ok"
                    THEN Append(rows, ToDbEntry(valid[k], userId, Len(rows) + 1))
                    ELSE rows,
                    k + 1)

-----------------------------------------------------------------------------
(* syncGameLibrary *)

\* what the filter keeps of the gateway's answer; nothing when games is null
AnswerValid == IF upstream = None THEN <<>> ELSE ValidGames(upstream[1])

\* the event counting the records of the answer instead of the valid ones
SyncedEventAllRecords(u, valid) == [userId |-> u, gameCount |-> Len(upstream[1])]

\* the event syncGameLibrary dispatches
SyncedEvent(u, valid) == [userId |-> u, gameCount |-> Len(valid)]

\* resp: the relay gateway rejects ("throws") or answers ("answers"); setup:
\* the data client of storeGamesInDatabase cannot be made ("throws"), which
\* the outer catch rethrows; outs: the outcomes of the store loop
SyncGameLibrary(u, resp, setup, outs) ==
    LET valid == AnswerValid
        stores == resp = "answers" /\ Len(valid) > 0
    IN
    /\ nSyncs < MaxSyncs
    /\ nSyncs' = nSyncs + 1
    /\ resp \in {"throws", "answers"}
    /\ setup \in {"ok", "throws"}
    /\ outs \in StoreVectors(Len(valid))
    /\ ~stores => setup = "ok"
    /\ ~(stores /\ setup = "ok") => outs = AllStored(Len(valid))
    /\ IF resp = "throws"
       THEN /\ Inject(1)
            /\ last' = Settled("sync", u, "rejected", "gateway", None)
            /\ UNCHANGED <<lsGames, lsLib, dbEntries, events>>
       ELSE IF ~stores
       THEN /\ lsGames' = [lsGames EXCEPT ![u] = Some(<<>>)]
            /\ lsLib' = [lsLib EXCEPT ![u] = Some(<<>>)]
            /\ last' = Settled("sync", u, "resolved", "none", None)
            /\ UNCHANGED <<dbEntries, events, nFaults>>
       ELSE IF setup = "throws"
       THEN /\ Inject(1)
            /\ lsGames' = [lsGames EXCEPT ![u] = Some(valid)]
            /\ last' = Settled("sync", u, "rejected", "persist", None)
            /\ UNCHANGED <<lsLib, dbEntries, events>>
       ELSE /\ Inject(SumCost(outs, 1))
            /\ lsGames' = [lsGames EXCEPT ![u] = Some(valid)]
            /\ dbEntries' = StoredRows(valid, outs, u, dbEntries, 1)
            /\ lsLib' = [lsLib EXCEPT ![u] = Some(ToLibraryEntries(valid, u))]
            /\ events' = Append(events, SyncedEvent(u, valid))
            /\ last' = Settled("sync", u, "resolved", "none", None)
    /\ UNCHANGED <<upstream, lsData, dbUser, nEdits>>
    /\ UNCHANGED <<catalogVars, viewVars, authVars, shelfVars>>

Finished(t) == t.pc \in {"idle", "done", "failed"}

\* SteamSync.handleQuickSync: one syncGameLibrary call; the button is disabled
\* while a sync handler runs
QuickSync(u, resp, setup, outs) ==
    /\ Finished(task)
    /\ SyncGameLibrary(u, resp, setup, outs)
    /\ UNCHANGED task

\* SteamSync.handleFullSync, step 1: a rejected syncGameLibrary ends the
\* handler with 'Sync failed'
FullSyncLibrary(u, resp, setup, outs) ==
    /\ Finished(task)
    /\ SyncGameLibrary(u, resp, setup, outs)
    /\ task' = [i |-> 0, games |-> <<>>,
                pc |-> IF last'.result = "rejected" THEN "failed" ELSE "owned",
                user |-> u]

-----------------------------------------------------------------------------
(* handleFullSync after the library step: getOwnedGames, then
   syncGameAchievements for every game that has statistics *)

\* getOwnedGames never rejects: a failure becomes {success: false} and the
\* handler skips the achievement loop.  An answer whose games field is null
\* makes games.length throw, which the handler's catch turns into 'Sync failed'
GetOwnedGames(out) ==
    /\ task.pc = "owned"
    /\ out \in {"ok", "throws"}
    /\ Inject(Cost(out))
    /\ task' = IF out = "throws" THEN [task EXCEPT !.pc = "done"]
               ELSE IF upstream = None THEN [task EXCEPT !.pc = "failed"]
               ELSE [task EXCEPT !.pc = "achievements", !.games = upstream[1],
                                 !.i = 1]
    /\ last' = Settled("owned", task.user, "resolved",
                       IF out = "ok" THEN "none" ELSE "gateway", None)
    /\ UNCHANGED <<upstream, lsData, lsGames, lsLib, dbEntries, dbUser,
                   events, nSyncs, nEdits>>
    /\ UNCHANGED <<catalogVars, viewVars, authVars, shelfVars>>

\* entries.findIndex(entry => entry.steamAppId === appId); 0 when there is none
FindIndex(entries, appId) ==
    LET hits == {k \in 1..Len(entries) : entries[k].steamAppId = appId}
    IN IF hits = {} THEN 0 ELSE CHOOSE k \in hits : \A m \in hits : k <= m

\* what syncGameAchievements leaves under gameshelf-library-entries-<u> once
\* the gateway has answered with the list achs
WithAchievements(stored, appId, achs) ==
    IF stored = None
    THEN stored
    ELSE LET entries == stored[1]
             k == FindIndex(entries, appId)
         IN IF k = 0
            THEN stored
            ELSE Some([entries EXCEPT ![k].steamAchievements = Some(achs)])

\* a catch that logs and rethrows, as the catch of syncGameLibrary does
AchievementsRethrown(u, cause) ==
    Settled("achievements", u, "rejected", cause, None)

\* the catch of syncGameAchievements: log, and return normally
AchievementsCaught(u, cause) ==
    Settled("achievements", u, "resolved", cause, None)

\* one iteration of the achievement loop.  syncGameAchievements catches every
\* error: a rejected gateway call, and the TypeError of appId.toString() for a
\* record without appId
AchievementStep(out, achs) ==
    /\ task.pc = "achievements"
    /\ task.i <= Len(task.games)
    /\ out \in {"ok", "throws"}
    /\ LET game == task.games[task.i]
           u == task.user
       IN IF ~game.hasStats
          THEN /\ out = "ok" /\ achs = <<>>
               /\ UNCHANGED <<lsLib, last, nFaults>>
          ELSE IF game.appId = None
          THEN /\ out = "ok" /\ achs = <<>>
               /\ last' = AchievementsCaught(u, "type-error")
               /\ UNCHANGED <<lsLib, nFaults>>
          ELSE IF out = "throws"
          THEN /\ achs = <<>>
               /\ Inject(1)
               /\ last' = AchievementsCaught(u, "gateway")
               /\ UNCHANGED lsLib
          ELSE /\ lsLib' = [lsLib EXCEPT ![u] =
                               WithAchievements(lsLib[u], game.appId, achs)]
               /\ last' = Settled("achievements", u, "resolved", "none",
                                  Some(achs))
               /\ UNCHANGED nFaults
    /\ task' = [task EXCEPT !.i = task.i + 1]
    /\ UNCHANGED <<upstream, lsData, lsGames, dbEntries, dbUser, events,
                   nSyncs, nEdits>>
    /\ UNCHANGED <<catalogVars, viewVars, authVars, shelfVars>>

\* the loop is over: 'Sync completed successfully!'
FullSyncDone ==
    /\ task.pc = "achievements"
    /\ task.i > Len(task.games)
    /\ task' = [task EXCEPT !.pc = "done"]
    /\ UNCHANGED <<upstream, lsData, lsGames, lsLib, dbEntries, dbUser,
                   events, last, nSyncs, nEdits, nFaults>>
    /\ UNCHANGED <<catalogVars, viewVars, authVars, shelfVars>>

-----------------------------------------------------------------------------
(* Reads and edits of the data gateway *)

\* LibraryEntry.list({filter: {userId: {eq: userId}, isFromSteam: {eq: true}}})
UserSteamRows(u) ==
    SelectSeq(dbEntries, LAMBDA e : e.userId = u /\ e.isFromSteam)

\* the SteamGame loadSteamGamesFromDatabase rebuilds from a row
FromDbEntry(e) ==
    [appId |-> Some(e.gameId[2]),
     name |-> e.gameTitle,
     playtimeTotal |-> e.steamPlaytimeTotal,
     playtimeRecent |-> e.steamPlaytimeRecent,
     hasStats |-> FALSE,
     iconUrl |-> e.gameCover,
     logoUrl |-> e.gameCover,
     lastPlayed |-> IF e.steamLastPlayed = None THEN None
                    ELSE Some(e.steamLastPlayed[1][2])]

\* loadSteamGamesFromDatabase: with rows it overwrites both local keys; with
\* none (or when the list call fails, which getUserSteamGames turns into [])
\* it only reads.  It never rejects
LoadSteamGamesFromDatabase(u) ==
    /\ LET rows == UserSteamRows(u)
       IN IF Len(rows) > 0
          THEN /\ lsGames' = [lsGames EXCEPT ![u] =
                                Some([k \in 1..Len(rows) |-> FromDbEntry(rows[k])])]
               /\ lsLib' = [lsLib EXCEPT ![u] = Some(rows)]
          ELSE UNCHANGED <<lsGames, lsLib>>
    /\ last' = Settled("loadGames", u, "resolved", "none", None)
    /\ UNCHANGED <<upstream, lsData, dbEntries, dbUser, events, task,
                   nSyncs, nEdits, nFaults>>
    /\ UNCHANGED <<catalogVars, viewVars, authVars, shelfVars>>

Update(status, rating, notes) == [status |-> status, rating |-> rating, notes |-> notes]

\* the edits a user makes to an entry: a status, or a review (rating and notes)
Edits ==
    { Update(Some("finished"), None, None),
      Update(None, Some(5), Some("great")) }

ApplyUpdate(e, upd) ==
    [e EXCEPT !.status = IF upd.status = None THEN @ ELSE upd.status[1],
              !.rating = IF upd.rating = None THEN @ ELSE upd.rating,
              !.notes = IF upd.notes = None THEN @ ELSE upd.notes]

\* databaseService.updateLibraryEntry(entryId, updates), the update succeeding
UpdateLibraryEntry(k, upd) ==
    /\ nEdits < MaxEdits
    /\ k \in 1..Len(dbEntries)
    /\ dbEntries' = [dbEntries EXCEPT ![k] = ApplyUpdate(@, upd)]
    /\ nEdits' = nEdits + 1
    /\ last' = Settled("update", dbEntries[k].userId, "resolved", "none", None)
    /\ UNCHANGED <<upstream, lsData, lsGames, lsLib, dbUser, events,
                   task, nSyncs, nFaults>>
    /\ UNCHANGED <<catalogVars, viewVars, authVars, shelfVars>>

-----------------------------------------------------------------------------
(* The Steam profile *)

\* updateUserSteamProfile catching without rethrowing, as the per-game catch
\* of storeGamesInDatabase does
ConnectSettlesPersistSwallowed(u, outGw, outDb) ==
    IF outGw = "throws" THEN Settled("connect", u, "rejected", "gateway", None)
    ELSE IF outDb = "throws" THEN Settled("connect", u, "resolved", "persist", None)
    ELSE Settled("connect", u, "resolved", "none", None)

\* how connectSteamProfile settles: the catch of updateUserSteamProfile and
\* its own both rethrow
ConnectSettles(u, outGw, outDb) ==
    IF outGw = "throws" THEN Settled("connect", u, "rejected", "gateway", None)
    ELSE IF outDb = "throws" THEN Settled("connect", u, "rejected", "persist", None)
    ELSE Settled("connect", u, "resolved", "none", None)

\* connectSteamProfile: the gateway resolves the steamId, the profile goes to
\* localStorage, then updateUserSteamProfile updates the User row
ConnectSteamProfile(u, outGw, outDb) ==
    /\ outGw \in {"ok", "throws"}
    /\ outDb \in DataOutcomes
    /\ outGw = "throws" => outDb = "ok"
    /\ Inject(Cost(outGw) + Cost(outDb))
    /\ lsData' = IF outGw = "ok" THEN [lsData EXCEPT ![u] = Some(SteamData(u))]
                 ELSE lsData
    /\ dbUser' = IF outGw = "ok" /\ outDb = "ok"
                 THEN [dbUser EXCEPT ![u] = Some(UserSteam)]
                 ELSE dbUser
    /\ last' = ConnectSettles(u, outGw, outDb)
    /\ UNCHANGED <<upstream, lsGames, lsLib, dbEntries, events, task,
                   nSyncs, nEdits>>
    /\ UNCHANGED <<catalogVars, viewVars, authVars, shelfVars>>

\* localStorage.removeItem(key)
RemoveItem(store, u) == [store EXCEPT ![u] = None]

\* a disconnect that forgets the library entries key
DisconnectKeepsLibrary(u) ==
    /\ lsData' = RemoveItem(lsData, u)
    /\ lsGames' = RemoveItem(lsGames, u)
    /\ last' = Settled("disconnect", u, "resolved", "none", None)
    /\ UNCHANGED <<upstream, lsLib, dbEntries, dbUser, events, task, nSyncs,
                   nEdits, nFaults>>
    /\ UNCHANGED <<catalogVars, viewVars, authVars, shelfVars>>

\* disconnectSteamProfile: three removeItem calls
DisconnectSteamProfile(u) ==
    /\ lsData' = RemoveItem(lsData, u)
    /\ lsGames' = RemoveItem(lsGames, u)
    /\ lsLib' = RemoveItem(lsLib, u)
    /\ last' = Settled("disconnect", u, "resolved", "none", None)
    /\ UNCHANGED <<upstream, dbEntries, dbUser, events, task, nSyncs,
                   nEdits, nFaults>>
    /\ UNCHANGED <<catalogVars, viewVars, authVars, shelfVars>>

\* loadSteamProfileFromDatabase: a connected User row is copied to
\* localStorage; it never rejects
LoadSteamProfileFromDatabase(u) ==
    /\ lsData' = IF dbUser[u] # None /\ dbUser[u][1].steamConnected
                 THEN [lsData EXCEPT ![u] =
                         Some([userId |-> u, steamId |-> dbUser[u][1].steamId,
                               steamConnected |-> TRUE])]
                 ELSE lsData
    /\ last' = Settled("loadProfile", u, "resolved", "none", None)
    /\ UNCHANGED <<upstream, lsGames, lsLib, dbEntries, dbUser, events,
                   task, nSyncs, nEdits, nFaults>>
    /\ UNCHANGED <<catalogVars, viewVars, authVars, shelfVars>>

-----------------------------------------------------------------------------
(* The inputs of a syncGameLibrary call *)

Responses == {"throws", "answers"}

Setups(resp) ==
    IF resp = "answers" /\ Len(AnswerValid) > 0 THEN {"ok", "throws"} ELSE {"ok"}

Stores(resp, setup) ==
    IF resp = "answers" /\ setup = "ok"
    THEN StoreVectors(Len(AnswerValid))
    ELSE {AllStored(Len(AnswerValid))}

QuickSyncs ==
    \E resp \in Responses : \E setup \in Setups(resp) :
        \E outs \in Stores(resp, setup) : QuickSync(Me, resp, setup, outs)

FullSyncs ==
    \E resp \in Responses : \E setup \in Setups(resp) :
        \E outs \in Stores(resp, setup) : FullSyncLibrary(Me, resp, setup, outs)

-----------------------------------------------------------------------------
(* Specifications *)

\* the library: both sync handlers, the load from the data gateway and the
\* user's edits
Next ==
    \/ QuickSyncs
    \/ FullSyncs
    \/ \E out \in {"ok", "throws"} : GetOwnedGames(out)
    \/ \E out \in {"ok", "throws"}, achs \in AchLists : AchievementStep(out, achs)
    \/ FullSyncDone
    \/ LoadSteamGamesFromDatabase(Me)
    \/ \E k \in 1..MaxRows, upd \in Edits : UpdateLibraryEntry(k, upd)

Spec == Init /\ [][Next]_vars

\* the sync handlers and the load, without edits
NextSync ==
    \/ QuickSyncs
    \/ FullSyncs
    \/ \E out \in {"ok", "throws"} : GetOwnedGames(out)
    \/ \E out \in {"ok", "throws"}, achs \in AchLists : AchievementStep(out, achs)
    \/ FullSyncDone
    \/ LoadSteamGamesFromDatabase(Me)

SpecSync == Init /\ [][NextSync]_vars

\* the Steam profile: connect, disconnect and the loads, with the quick sync
NextProfile ==
    \/ QuickSyncs
    \/ LoadSteamGamesFromDatabase(Me)
    \/ \E outGw \in {"ok", "throws"}, outDb \in DataOutcomes :
          ConnectSteamProfile(Me, outGw, outDb)
    \/ DisconnectSteamProfile(Me)
    \/ LoadSteamProfileFromDatabase(Me)

SpecProfile == Init /\ [][NextProfile]_vars

-----------------------------------------------------------------------------
(* Properties of the status policy *)

\* a step of syncGameLibrary, and one that resolved
SyncStep == nSyncs' = nSyncs + 1

ResolvedSyncStep == SyncStep /\ last'.call = "sync" /\ last'.result = "resolved"

\* the records of the gateway's answer, none when the games field is null
UpstreamRecords == IF upstream = None THEN <<>> ELSE upstream[1]

\* the status the policy gives for the playtimes of a record
PolicyHolds(total, recent, status) ==
    /\ total = 0 => status = "planning"
    /\ total > 0 /\ recent > 0 => status = "playing"
    /\ total > 0 /\ recent = 0 => status = "paused"

\* e is the entry of an upstream record, with the status of its playtimes
FollowsPolicy(e) ==
    \E k \in 1..Len(UpstreamRecords) :
        LET g == UpstreamRecords[k]
        IN /\ g.appId # None
           /\ e.gameId = GameIdOf(g.appId[1])
           /\ e.steamPlaytimeTotal = g.playtimeTotal
           /\ e.steamPlaytimeRecent = g.playtimeRecent
           /\ PolicyHolds(g.playtimeTotal, g.playtimeRecent, e.status)

\* the rows a step added to the LibraryEntry table
NewRows == SubSeq(dbEntries', Len(dbEntries) + 1, Len(dbEntries'))

\* C1: every entry a sync run writes, in the local mirror and in the
\* LibraryEntry table, has the status the policy gives for the playtimes of
\* its upstream record (total = 0: planning; total > 0 and recent > 0:
\* playing; total > 0 and recent = 0: paused), and so never finished or
\* dropped
C1_StatusFromPlaytime ==
    [][ResolvedSyncStep =>
          /\ \A k \in 1..Len(lsLib'[Me][1]) :
                /\ FollowsPolicy(lsLib'[Me][1][k])
                /\ lsLib'[Me][1][k].status \notin {"finished", "dropped"}
          /\ \A k \in 1..Len(NewRows) :
                /\ FollowsPolicy(NewRows[k])
                /\ NewRows[k].status \notin {"finished", "dropped"}]_vars

\* a sync wrote a playing entry and a paused entry of very large playtime to
\* the local mirror, and the paused one to the table too
C1_Witness ==
    /\ last.call = "sync"
    /\ lsLib[Me] # None
    /\ \E k \in 1..Len(lsLib[Me][1]) : lsLib[Me][1][k].status = "playing"
    /\ \E k \in 1..Len(lsLib[Me][1]) :
          /\ lsLib[Me][1][k].status = "paused"
          /\ lsLib[Me][1][k].steamPlaytimeTotal = BigPlaytime
    /\ \E k \in 1..Len(dbEntries) :
          /\ dbEntries[k].userId = Me
          /\ dbEntries[k].status = "paused"
          /\ dbEntries[k].steamPlaytimeTotal = BigPlaytime

-----------------------------------------------------------------------------
(* Properties of repeated syncs *)

\* a record that has a game identifier and a name
HasIdAndName(g) ==
    /\ g.appId # None /\ g.appId[1] # 0
    /\ g.name # NoName /\ g.name # ""

\* the identifiers of the owned games the gateway answers with
OwnedGameIds ==
    { GameIdOf(UpstreamRecords[k].appId[1]) :
        k \in { j \in 1..Len(UpstreamRecords) : HasIdAndName(UpstreamRecords[j]) } }

\* how many entries of a list are for the game id
CountFor(entries, id) ==
    Cardinality({ k \in 1..Len(entries) : entries[k].gameId = id })

\* C2: after two or more syncs of the same upstream data, none of which met a
\* failure, the local mirror and the LibraryEntry table each hold exactly one
\* entry of the user per owned game identifier
C2_OneEntryPerGame ==
    (nSyncs >= 2 /\ nFaults = 0 /\ last.call = "sync" /\ last.result = "resolved")
        => \A id \in OwnedGameIds :
              /\ CountFor(lsLib[Me][1], id) = 1
              /\ CountFor(UserSteamRows(Me), id) = 1

-----------------------------------------------------------------------------
(* Properties of user curation across syncs *)

\* the entries of the signed-in user's local mirror, before and after a step
MirrorBefore == IF lsLib[Me] = None THEN <<>> ELSE lsLib[Me][1]

MirrorAfter == IF lsLib'[Me] = None THEN <<>> ELSE lsLib'[Me][1]

\* C3: a sync run leaves the rating and the notes of every entry that carries
\* a user's rating, and whose game is still owned, as they were
C3_RatingAndNotesPreserved ==
    [][SyncStep =>
          \A k \in 1..Len(MirrorBefore) :
             (MirrorBefore[k].rating # None /\ MirrorBefore[k].gameId \in OwnedGameIds)
                => \E j \in 1..Len(MirrorAfter) :
                      /\ MirrorAfter[j].gameId = MirrorBefore[k].gameId
                      /\ MirrorAfter[j].rating = MirrorBefore[k].rating
                      /\ MirrorAfter[j].notes = MirrorBefore[k].notes]_vars

\* C4: an entry whose status the user set to finished or dropped has that
\* status after every later sync run
C4_ManualStatusKept ==
    [][SyncStep =>
          \A k \in 1..Len(MirrorBefore) :
             (MirrorBefore[k].status \in {"finished", "dropped"}
                /\ MirrorBefore[k].gameId \in OwnedGameIds)
                => \A j \in 1..Len(MirrorAfter) :
                      MirrorAfter[j].gameId = MirrorBefore[k].gameId
                         => MirrorAfter[j].status = MirrorBefore[k].status]_vars

-----------------------------------------------------------------------------
(* Properties of one sync run *)

\* the upstream records that have both an identifier and a name, in order
KeptRecords == SelectSeq(UpstreamRecords, HasIdAndName)

\* the entries correspond one-to-one, in order, to the kept records
MatchesKept(entries) ==
    /\ Len(entries) = Len(KeptRecords)
    /\ \A k \in 1..Len(entries) :
          /\ entries[k].gameId = GameIdOf(KeptRecords[k].appId[1])
          /\ entries[k].gameTitle = KeptRecords[k].name
          /\ entries[k].userId = Me

\* C5: a sync run whose gateways do not fail resolves, whatever records the
\* answer holds, and the entries it writes for the user, in the local mirror
\* and in the LibraryEntry table, correspond one-to-one to the upstream
\* records that have both an appId and a name
C5_InvalidRecordsDropped ==
    [][(SyncStep /\ upstream # None /\ nFaults' = nFaults) =>
          /\ last'.call = "sync" /\ last'.result = "resolved"
          /\ lsLib'[Me] # None
          /\ MatchesKept(lsLib'[Me][1])
          /\ MatchesKept(NewRows)]_vars

\* the answer held a record with appId null and a valid record, and the run
\* persisted exactly one entry
C5_Witness ==
    /\ upstream # None /\ Len(upstream[1]) = 2
    /\ upstream[1][1].appId = None
    /\ HasIdAndName(upstream[1][2])
    /\ last.call = "sync" /\ last.result = "resolved"
    /\ lsLib[Me] # None /\ Len(lsLib[Me][1]) = 1
    /\ Len(UserSteamRows(Me)) = 1

\* C6: a 'steamLibrarySynced' event is dispatched only by a sync run that
\* resolved and has written the user's library entries; its gameCount is the
\* number of entries that run wrote to the local mirror, which is the number
\* of rows it created in the LibraryEntry table unless a create failed; a run
\* that rejects dispatches nothing
C6_EventAfterPersist ==
    [][/\ events' # events =>
            /\ ResolvedSyncStep
            /\ Len(events') = Len(events) + 1
            /\ SubSeq(events', 1, Len(events)) = events
            /\ events'[Len(events')].userId = Me
            /\ lsLib'[Me] # None
            /\ MatchesKept(lsLib'[Me][1])
            /\ events'[Len(events')].gameCount = Len(lsLib'[Me][1])
            /\ Len(NewRows) <= events'[Len(events')].gameCount
            /\ nFaults' = nFaults => Len(NewRows) = events'[Len(events')].gameCount
       /\ (SyncStep /\ last'.result = "rejected") => events' = events]_vars

\* a first run dispatched the event with count 1 for an answer of two
\* records, and a second run failed and dispatched nothing
C6_Witness ==
    /\ nSyncs = 2
    /\ upstream # None /\ Len(upstream[1]) = 2
    /\ Len(events) = 1 /\ events[1].gameCount = 1
    /\ last.call = "sync" /\ last.result = "rejected"

-----------------------------------------------------------------------------
(* Properties of the achievement sync *)

\* the game the achievement loop is at
CurrentGame == task.games[task.i]

\* a step in which syncGameAchievements is called for the current game
AchievementCall ==
    /\ task.pc = "achievements" /\ task.i <= Len(task.games)
    /\ task'.i = task.i + 1
    /\ CurrentGame.hasStats

\* C7: a syncGameAchievements call the gateway answers sets the achievements
\* of the user's entry for that game to exactly the returned list, and leaves
\* every other entry as it was, however the local library was written
C7_AchievementsReplaced ==
    [][(AchievementCall /\ CurrentGame.appId # None
          /\ last'.call = "achievements" /\ last'.cause = "none")
        => /\ Len(MirrorAfter) = Len(MirrorBefore)
           /\ \A k \in 1..Len(MirrorBefore) :
                 IF MirrorBefore[k].gameId = GameIdOf(CurrentGame.appId[1])
                 THEN MirrorAfter[k].steamAchievements = last'.data
                 ELSE MirrorAfter[k] = MirrorBefore[k]]_vars

\* C8: a syncGameAchievements call whose gateway fails resolves, leaves the
\* local library and the LibraryEntry table as they were, and the full sync
\* goes on to the next game; from the achievement loop the handler only ever
\* reaches its successful end
C8_AchievementFailureSwallowed ==
    [][/\ (AchievementCall /\ last'.call = "achievements" /\ last'.cause = "gateway")
            => /\ last'.result = "resolved"
               /\ lsLib' = lsLib
               /\ dbEntries' = dbEntries
               /\ task'.pc = "achievements"
       /\ task.pc = "achievements" => task'.pc \in {"achievements", "done"}]_vars

\* a full sync ended successfully after the gateway failed for its first game
\* and answered for its second
C8_Witness ==
    /\ task.pc = "done" /\ nFaults = 1
    /\ Len(task.games) = 2
    /\ task.games[1].hasStats /\ task.games[2].hasStats
    /\ lsLib[Me] # None /\ Len(lsLib[Me][1]) = 2
    /\ lsLib[Me][1][1].steamAppId # None
    /\ lsLib[Me][1][1].steamAchievements = None
    /\ lsLib[Me][1][2].steamAchievements # None

-----------------------------------------------------------------------------
(* Properties of the Steam profile *)

\* the three localStorage keys of a user are absent
Cleared(data, games, lib, u) ==
    data[u] = None /\ games[u] = None /\ lib[u] = None

\* C9: disconnectSteamProfile resolves and leaves the user's profile, owned
\* games and library entries keys absent, whatever they held; it touches no
\* key of another user and no table of the data gateway; called where the
\* keys are absent already (a second call, or a user who never synced) it
\* changes none of them
C9_DisconnectClears ==
    [][last'.call = "disconnect" =>
          /\ last'.result = "resolved"
          /\ Cleared(lsData', lsGames', lsLib', last'.user)
          /\ \A u \in Users \ {last'.user} :
                lsData'[u] = lsData[u] /\ lsGames'[u] = lsGames[u]
                   /\ lsLib'[u] = lsLib[u]
          /\ UNCHANGED <<dbEntries, dbUser, events>>
          /\ Cleared(lsData, lsGames, lsLib, last'.user)
                => UNCHANGED <<lsData, lsGames, lsLib>>]_vars

\* the user connected and synced a library, and the last call, a disconnect,
\* left the keys absent
C9_Witness ==
    /\ last.call = "disconnect"
    /\ dbUser[Me] # None
    /\ events # <<>>
    /\ Cleared(lsData, lsGames, lsLib, Me)

\* C10: a connectSteamProfile call rejects when the relay gateway or the
\* update of the User row fails, and only then; when it resolves, the profile
\* is in localStorage and in the User row
C10_ConnectPropagatesFailure ==
    [][last'.call = "connect" =>
          /\ nFaults' > nFaults =>
                last'.result = "rejected" /\ last'.cause \in {"gateway", "persist"}
          /\ nFaults' = nFaults => last'.result = "resolved"
          /\ last'.result = "resolved" =>
                lsData'[Me] # None /\ dbUser'[Me] # None]_vars

\* a connect was rejected because the update of the User row failed
C10_Witness ==
    /\ last.call = "connect"
    /\ last.result = "rejected" /\ last.cause = "persist"
    /\ dbUser[Me] = None
    /\ nFaults = 1

-----------------------------------------------------------------------------
(* GameDatabase: the TTL cache over localStorage *)

\* Object.values(CACHE_KEYS), in order
CachePrefixes ==
    <<"gameshelf-trending-games", "gameshelf-game-details",
      "gameshelf-search-results", "gameshelf-genre-games">>

\* CACHE_DURATION, in milliseconds
TrendingDuration == 6 * 60 * 60 * 1000

GameDetailsDuration == 24 * 60 * 60 * 1000

SearchDuration == 60 * 60 * 1000

GenreDuration == 12 * 60 * 60 * 1000

\* a maxAge is Some(milliseconds), or Infinity, which no age exceeds
Infinity == None

\* the key `${prefix}-${parameters}`
CacheKey(prefix, suffix) == [prefix |-> prefix, suffix |-> suffix]

TrendingKey(limit) == CacheKey(CachePrefixes[1], <<limit>>)

DetailsKey(appId) == CacheKey(CachePrefixes[2], <<appId>>)

SearchKey(query, limit, page) == CacheKey(CachePrefixes[3], <<query, limit, page>>)

GenreKey(genre, limit) == CacheKey(CachePrefixes[4], <<genre, limit>>)

\* a key of the same localStorage that is no cache key
GamesKey == CacheKey("gameshelf-games", <<>>)

\* storageKey.startsWith(prefix)
StartsWith(key, prefix) == key.prefix = prefix

\* an optional property of a JavaScript object: the object has it, holding a
\* value or undefined (None), or does not have it
Undefined == None

Property(value) == [value |-> value, own |-> TRUE]

NoProperty == [value |-> Undefined, own |-> FALSE]

\* reading a property: undefined when the object does not have it
ReadProperty(p) == p.value

\* a GameDatabaseEntry: source tells the detail record from the best-effort
\* transform of the raw entry; metacritic_score is a number or undefined
CatalogEntry(appid, name, source, score, t) ==
    [name |-> name, appid |-> appid, source |-> source,
     metacritic_score |-> Property(score), last_updated |-> t]

\* JSON.parse(JSON.stringify(e)): a property holding undefined is dropped
JsonEntry(e) ==
    [e EXCEPT !.metacritic_score = IF @.value = Undefined THEN NoProperty ELSE @]

JsonGames(games) == [k \in 1..Len(games) |-> JsonEntry(games[k])]

\* a stored string that is no JSON text, and the JSON text null
SyntaxError == [kind |-> "syntax-error"]

JsonNull == [kind |-> "null"]

\* the string cacheData stores: JSON.stringify({data, timestamp}); data is
\* given as the JSON conversion leaves it
CacheRecord(data, timestamp) ==
    [data |-> data, kind |-> "record", timestamp |-> timestamp]

\* localStorage.getItem(key): None when the key is absent
StorageIndex(c, key) ==
    LET hits == {k \in 1..Len(c) : c[k].key = key}
    IN IF hits = {} THEN 0 ELSE CHOOSE k \in hits : TRUE

StorageGet(c, key) ==
    IF StorageIndex(c, key) = 0 THEN None ELSE Some(c[StorageIndex(c, key)].item)

\* localStorage.setItem(key, item): a key that exists keeps its place, a new
\* key goes to the end
StorageSet(c, key, item) ==
    IF StorageIndex(c, key) = 0
    THEN Append(c, [key |-> key, item |-> item])
    ELSE [c EXCEPT ![StorageIndex(c, key)].item = item]

\* localStorage.removeItem(key): the keys behind it move up by one
StorageRemove(c, key) == SelectSeq(c, LAMBDA e : e.key # key)

\* cacheData(key, data) at time t; a setItem that throws (the quota is
\* exceeded) is caught and nothing is stored
CacheData(c, key, data, t, stored) ==
    IF stored THEN StorageSet(c, key, CacheRecord(data, t)) ELSE c

\* the answer of getCachedData and the localStorage it leaves
CacheAnswer(value, c) == [cache |-> c, value |-> value]

\* the answer for a record older than maxAge: the key is removed
StaleAnswer(c, key) == CacheAnswer(None, StorageRemove(c, key))

\* a read that takes whatever is stored for a record holding an empty list
GetCachedDataTrustingItem(c, key, maxAge, t) ==
    LET item == StorageGet(c, key)
    IN IF item = None THEN CacheAnswer(None, c)
       ELSE IF item[1].kind # "record" THEN CacheAnswer(Some(<<>>), c)
       ELSE IF maxAge # Infinity /\ t - item[1].timestamp > maxAge[1]
       THEN StaleAnswer(c, key)
       ELSE CacheAnswer(Some(item[1].data), c)

\* getCachedData treating a record of exactly maxAge as expired
GetCachedDataExpiringEarly(c, key, maxAge, t) ==
    LET item == StorageGet(c, key)
    IN IF item = None THEN CacheAnswer(None, c)
       ELSE IF item[1].kind # "record" THEN CacheAnswer(None, c)
       ELSE IF maxAge # Infinity /\ t - item[1].timestamp >= maxAge[1]
       THEN StaleAnswer(c, key)
       ELSE CacheAnswer(Some(item[1].data), c)

\* getCachedData(key, maxAge) at time t: null (None) for an absent key, for a
\* string JSON.parse throws on, for the JSON text null (reading
\* parsed.timestamp throws) and for a record older than maxAge
GetCachedData(c, key, maxAge, t) ==
    LET item == StorageGet(c, key)
    IN IF item = None THEN CacheAnswer(None, c)
       ELSE IF item[1].kind # "record" THEN CacheAnswer(None, c)
       ELSE IF maxAge # Infinity /\ t - item[1].timestamp > maxAge[1]
       THEN StaleAnswer(c, key)
       ELSE CacheAnswer(Some(item[1].data), c)

\* clearCache, the inner loop for one prefix from index i (1-based): after a
\* removal the loop still moves to the next index
RECURSIVE ClearScan(_, _, _)
ClearScan(c, prefix, i) ==
    IF i > Len(c) THEN c
    ELSE IF StartsWith(c[i].key, prefix)
    THEN ClearScan(StorageRemove(c, c[i].key), prefix, i + 1)
    ELSE ClearScan(c, prefix, i + 1)

\* clearCache, from the k-th prefix on
RECURSIVE ClearCacheFrom(_, _)
ClearCacheFrom(c, k) ==
    IF k > Len(CachePrefixes) THEN c
    ELSE ClearCacheFrom(ClearScan(c, CachePrefixes[k], 1), k + 1)

-----------------------------------------------------------------------------
(* The cache operations, called one at a time *)

\* the clock moves on by a millisecond or by the trending duration
TickSteps == {1, TrendingDuration}

TicksSoFar == (now \div TrendingDuration) + (now % TrendingDuration)

Tick(d) ==
    /\ d > 0
    /\ TicksSoFar < MaxTicks
    /\ now' = now + d
    /\ UNCHANGED <<cache, nFetch, ret, nCalls>>
    /\ UNCHANGED <<libraryVars, viewVars, authVars, shelfVars>>

\* the payloads cacheData is given: lists of catalog entries, with and
\* without a review score
CachedLists ==
    { <<>>,
      <<CatalogEntry(10, "A", "details", Some(80), 0),
        CatalogEntry(20, "B", "basic", Undefined, 0)>> }

\* cacheData(key, games)
CacheSet(key, games, stored) ==
    /\ nCalls < MaxCalls
    /\ nCalls' = nCalls + 1
    /\ cache' = CacheData(cache, key, JsonGames(games), now, stored)
    /\ ret' = [op |-> "set", stored |-> stored, key |-> key, given |-> games,
               at |-> now]
    /\ UNCHANGED <<now, nFetch>>
    /\ UNCHANGED <<libraryVars, viewVars, authVars, shelfVars>>

\* getCachedData(key, maxAge)
CacheGet(key, maxAge) ==
    /\ nCalls < MaxCalls
    /\ nCalls' = nCalls + 1
    /\ cache' = GetCachedData(cache, key, maxAge, now).cache
    /\ ret' = [op |-> "get", key |-> key,
               value |-> GetCachedData(cache, key, maxAge, now).value,
               maxAge |-> maxAge, at |-> now, raised |-> FALSE]
    /\ UNCHANGED <<now, nFetch>>
    /\ UNCHANGED <<libraryVars, viewVars, authVars, shelfVars>>

\* something else than cacheData wrote the key: a truncated or foreign string
CorruptItem(key, item) ==
    /\ nCalls < MaxCalls
    /\ nCalls' = nCalls + 1
    /\ item \in {SyntaxError, JsonNull}
    /\ cache' = StorageSet(cache, key, item)
    /\ ret' = [op |-> "corrupt", key |-> key]
    /\ UNCHANGED <<now, nFetch>>
    /\ UNCHANGED <<libraryVars, viewVars, authVars, shelfVars>>

\* the library page saves its manual games under 'gameshelf-games'
SaveGames ==
    /\ nCalls < MaxCalls
    /\ nCalls' = nCalls + 1
    /\ cache' = StorageSet(cache, GamesKey, [kind |-> "games"])
    /\ ret' = [op |-> "saveGames"]
    /\ UNCHANGED <<now, nFetch>>
    /\ UNCHANGED <<libraryVars, viewVars, authVars, shelfVars>>

\* clearCache()
ClearCache ==
    /\ nCalls < MaxCalls
    /\ nCalls' = nCalls + 1
    /\ cache' = ClearCacheFrom(cache, 1)
    /\ ret' = [op |-> "clear", raised |-> FALSE]
    /\ UNCHANGED <<now, nFetch>>
    /\ UNCHANGED <<libraryVars, viewVars, authVars, shelfVars>>

\* the library layer at rest while the catalog client is exercised
InitCatalog ==
    /\ LibraryInit /\ upstream = None /\ CatalogInit /\ ViewInit
    /\ AuthRest /\ ShelfInit

\* the keys and ages the cache is read with
ReadKeys == {TrendingKey(1), DetailsKey(10)}

ReadAges == {Some(1), Some(TrendingDuration), Infinity}

NextCache ==
    \/ \E d \in TickSteps : Tick(d)
    \/ \E key \in ReadKeys, games \in CachedLists, stored \in BOOLEAN :
          CacheSet(key, games, stored)
    \/ \E key \in ReadKeys, maxAge \in ReadAges : CacheGet(key, maxAge)
    \/ \E key \in ReadKeys, item \in {SyntaxError, JsonNull} : CorruptItem(key, item)

SpecCache == InitCatalog /\ [][NextCache]_vars

\* the keys clearCache meets: two of one prefix, one of each other prefix
ClearedKeys ==
    {TrendingKey(0), TrendingKey(1), DetailsKey(10), SearchKey("q", 20, 1),
     GenreKey("rpg", 20)}

NextClear ==
    \/ \E key \in ClearedKeys : CacheSet(key, <<>>, TRUE)
    \/ SaveGames
    \/ ClearCache

SpecClear == InitCatalog /\ [][NextClear]_vars

-----------------------------------------------------------------------------
(* GameDatabase: the catalog operations *)

\* a raw entry of a third-party answer
RawGame(appid, name) == [name |-> name, appid |-> appid]

\* data.response.ranks of the trending endpoint, and data.items of the store
\* search, when they answer
Ranks == <<RawGame(10, "A"), RawGame(20, "B")>>

SearchItems == <<RawGame(20, "B")>>

\* list.slice(0, end): a negative end counts from the end of the list
SliceTo(list, end) ==
    LET e == IF end < 0 THEN Len(list) + end ELSE end
    IN SubSeq(list, 1, IF e < 0 THEN 0 ELSE IF e > Len(list) THEN Len(list) ELSE e)

\* transformSteamAppDetails of the detail answer for an id, at time t
DetailEntry(raw, t) == CatalogEntry(raw.appid, raw.name, "details", Some(80), t)

\* transformBasicGameInfo(raw) at time t
BasicEntry(raw, t) == CatalogEntry(raw.appid, raw.name, "basic", Undefined, t)

\* what a detail lookup that misses the cache may meet: the detail answer
\* ("details"), or a failure or an answer without data ("none"), both of
\* which getGameDetails turns into null
LookupOutcomes == {"details", "none"}

\* getGameDetails(raw.appid) at time t: the value (None for null), the
\* localStorage it leaves, and the network calls it made
GetGameDetails(raw, out, c, t) ==
    LET key == DetailsKey(raw.appid)
        cached == GetCachedData(c, key, Some(GameDetailsDuration), t)
    IN IF cached.value # None
       THEN [cache |-> cached.cache, value |-> cached.value, calls |-> 0]
       ELSE IF out = "details"
       THEN [cache |-> CacheData(cached.cache, key, JsonEntry(DetailEntry(raw, t)), t, TRUE),
             value |-> Some(DetailEntry(raw, t)),
             calls |-> 1]
       ELSE [cache |-> cached.cache, value |-> None, calls |-> 1]

\* the entry enrichGameData pushes for a raw entry given its lookup
Enriched(raw, lookup, t) ==
    IF lookup.value # None THEN lookup.value[1] ELSE BasicEntry(raw, t)

\* a failed lookup pushes nothing
PushUnlessFailed(done, raw, lookup, t) ==
    IF lookup.value # None THEN Append(done, lookup.value[1]) ELSE done

\* enrichedGames.push(...) of either branch and of the catch
PushEnriched(done, raw, lookup, t) == Append(done, Enriched(raw, lookup, t))

\* enrichGameData(raws), from the k-th raw entry on, having pushed done
RECURSIVE EnrichGameData(_, _, _, _, _, _, _)
EnrichGameData(raws, outs, c, t, k, done, calls) ==
    IF k > Len(raws)
    THEN [cache |-> c, games |-> done, calls |-> calls]
    ELSE LET lookup == GetGameDetails(raws[k], outs[k], c, t)
         IN EnrichGameData(raws, outs, lookup.cache, t, k + 1,
                           PushEnriched(done, raws[k], lookup, t),
                           calls + lookup.calls)

\* how a catalog call settled: the limit and forceRefresh it was given, the
\* value returned, whether it raised, the network calls it made, the raw
\* entries it enriched (None when it did not get that far), and whether
\* localStorage took its result
Returned(op, key, limit, force, value, calls, raws, stored) ==
    [op |-> op, stored |-> stored, limit |-> limit, key |-> key, value |-> value,
     at |-> now, raised |-> FALSE, calls |-> calls, raws |-> raws,
     force |-> force]

\* a first read that is made even when forceRefresh is set
TrendingLookupAlwaysCached(force, c, key, t) ==
    GetCachedData(c, key, Some(TrendingDuration), t)

\* the first read of getTrendingGames: skipped when forceRefresh is set
TrendingLookup(force, c, key, t) ==
    IF force THEN CacheAnswer(None, c)
    ELSE GetCachedData(c, key, Some(TrendingDuration), t)

\* getTrendingGames(limit, forceRefresh).  resp: the trending endpoint
\* answers with ranks ("ranks"), or the fetch, the status or the format
\* fails ("fails"); outs: the outcomes of the detail lookups; stored: whether
\* localStorage accepts the list
GetTrendingGames(limit, force, resp, outs, stored) ==
    LET key == TrendingKey(limit)
        first == TrendingLookup(force, cache, key, now)
        raws == SliceTo(Ranks, limit)
        rich == EnrichGameData(raws, outs, first.cache, now, 1, <<>>, 0)
        stale == GetCachedData(first.cache, key, Infinity, now)
    IN
    /\ nCalls < MaxCalls
    /\ nCalls' = nCalls + 1
    /\ resp \in {"ranks", "fails"}
    /\ outs \in [1..Len(raws) -> LookupOutcomes]
    /\ IF first.value # None
       THEN /\ cache' = first.cache
            /\ ret' = Returned("trending", key, limit, force, first.value[1], 0, None, FALSE)
            /\ UNCHANGED nFetch
       ELSE IF resp = "ranks"
       THEN /\ cache' = CacheData(rich.cache, key, JsonGames(rich.games), now, stored)
            /\ ret' = Returned("trending", key, limit, force, rich.games,
                               1 + rich.calls, Some(raws), stored)
            /\ nFetch' = nFetch + 1
       ELSE /\ cache' = stale.cache
            /\ ret' = Returned("trending", key, limit, force,
                               IF stale.value # None THEN stale.value[1] ELSE <<>>,
                               1, None, FALSE)
            /\ nFetch' = nFetch + 1
    /\ UNCHANGED now
    /\ UNCHANGED <<libraryVars, viewVars, authVars, shelfVars>>

\* the result searchGames returns
SearchResult(games, total, page, limit) ==
    [total |-> total, games |-> games, limit |-> limit, page |-> page]

\* a failure result that forgets the caller's paging
SearchFailureDefaults(page, limit) == SearchResult(<<>>, 0, 1, 20)

\* what searchGames returns from its catch
SearchFailure(page, limit) == SearchResult(<<>>, 0, page, limit)

\* searchGames(query, limit, page).  resp: the store search answers with
\* items ("items") or fails in the fetch, the status or the format ("fails")
SearchGames(query, limit, page, resp, outs, stored) ==
    LET key == SearchKey(query, limit, page)
        first == GetCachedData(cache, key, Some(SearchDuration), now)
        raws == SearchItems
        rich == EnrichGameData(raws, outs, first.cache, now, 1, <<>>, 0)
        found == SearchResult(rich.games, Len(raws), page, limit)
    IN
    /\ nCalls < MaxCalls
    /\ nCalls' = nCalls + 1
    /\ resp \in {"items", "fails"}
    /\ outs \in [1..Len(raws) -> LookupOutcomes]
    /\ IF first.value # None
       THEN /\ cache' = first.cache
            /\ ret' = Returned("search", key, limit, FALSE, first.value[1], 0, None, FALSE)
       ELSE IF resp = "items"
       THEN /\ cache' = CacheData(rich.cache, key,
                                  [found EXCEPT !.games = JsonGames(@)], now, stored)
            /\ ret' = Returned("search", key, limit, FALSE, found,
                               1 + rich.calls, Some(raws), stored)
       ELSE /\ cache' = first.cache
            /\ ret' = Returned("search", key, limit, FALSE,
                               SearchFailure(page, limit), 1, None, FALSE)
    /\ UNCHANGED <<now, nFetch>>
    /\ UNCHANGED <<libraryVars, viewVars, authVars, shelfVars>>

\* getGamesByGenre(genre, limit): the same search with the genre as the term
GetGamesByGenre(genre, limit, resp, outs, stored) ==
    LET key == GenreKey(genre, limit)
        first == GetCachedData(cache, key, Some(GenreDuration), now)
        raws == SearchItems
        rich == EnrichGameData(raws, outs, first.cache, now, 1, <<>>, 0)
    IN
    /\ nCalls < MaxCalls
    /\ nCalls' = nCalls + 1
    /\ resp \in {"items", "fails"}
    /\ outs \in [1..Len(raws) -> LookupOutcomes]
    /\ IF first.value # None
       THEN /\ cache' = first.cache
            /\ ret' = Returned("genre", key, limit, FALSE, first.value[1], 0, None, FALSE)
       ELSE IF resp = "items"
       THEN /\ cache' = CacheData(rich.cache, key, JsonGames(rich.games), now, stored)
            /\ ret' = Returned("genre", key, limit, FALSE, rich.games,
                               1 + rich.calls, Some(raws), stored)
       ELSE /\ cache' = first.cache
            /\ ret' = Returned("genre", key, limit, FALSE, <<>>, 1, None, FALSE)
    /\ UNCHANGED <<now, nFetch>>
    /\ UNCHANGED <<libraryVars, viewVars, authVars, shelfVars>>

\* the limits the catalog is asked for: negative, zero, more than there is
Limits == {-1, 0, 5}

\* the inputs of a call that matter: a call answered from the cache, or
\* whose fetch fails, takes one vector of lookups
Lookups(raws) == [1..Len(raws) -> LookupOutcomes]

TrendingCalls ==
    \E limit \in Limits, force \in BOOLEAN, resp \in {"ranks", "fails"} :
        \E outs \in Lookups(SliceTo(Ranks, limit)), stored \in BOOLEAN :
            /\ resp = "fails" => (stored /\ \A k \in DOMAIN outs : outs[k] = "none")
            /\ GetTrendingGames(limit, force, resp, outs, stored)

SearchCalls ==
    \E limit \in {0, 20}, page \in {1, 2}, resp \in {"items", "fails"} :
        \E outs \in Lookups(SearchItems), stored \in BOOLEAN :
            /\ resp = "fails" => (stored /\ \A k \in DOMAIN outs : outs[k] = "none")
            /\ SearchGames("q", limit, page, resp, outs, stored)

GenreCalls ==
    \E limit \in {0, 20}, resp \in {"items", "fails"} :
        \E outs \in Lookups(SearchItems), stored \in BOOLEAN :
            /\ resp = "fails" => (stored /\ \A k \in DOMAIN outs : outs[k] = "none")
            /\ GetGamesByGenre("rpg", limit, resp, outs, stored)

\* the clock of the catalog moves past the lifetime of a trending list
ExpirySteps == {TrendingDuration + 1}

\* the trending list, with the clock, foreign writes to its keys and direct
\* reads of them
NextTrending ==
    \/ \E d \in ExpirySteps : Tick(d)
    \/ TrendingCalls
    \/ CacheGet(TrendingKey(5), Some(TrendingDuration))
    \/ \E item \in {SyntaxError, JsonNull} : CorruptItem(TrendingKey(5), item)

SpecTrending == InitCatalog /\ [][NextTrending]_vars

\* search and genre, with the clock
NextSearch ==
    \/ \E d \in ExpirySteps : Tick(d)
    \/ SearchCalls
    \/ GenreCalls

SpecSearch == InitCatalog /\ [][NextSearch]_vars

\* the three catalog operations together
NextCatalog ==
    \/ \E d \in ExpirySteps : Tick(d)
    \/ TrendingCalls
    \/ SearchCalls
    \/ GenreCalls

SpecCatalog == InitCatalog /\ [][NextCatalog]_vars

-----------------------------------------------------------------------------
(* getRecentAchievements: the recent unlocks over a list of games *)

\* the caps of the view
GamesCap == 10

PerGameCap == 3

OverallCap == 15

\* the i-th game of the list, with or without statistics and an app id
ShelfGame(i, hasStats, hasId) ==
    [gameTitle |-> i,
     steamAppId |-> IF hasId THEN Some(i) ELSE None,
     steamHasStats |-> hasStats]

\* the lists of games given: n games, those at the positions in noStats
\* without statistics and those in noId without an app id
Shelf(n, noStats, noId) ==
    [i \in 1..n |-> ShelfGame(i, i \notin noStats, i \notin noId)]

\* an achievement as the gateway reports it
Unlock(name, achieved, unlockTime) ==
    [achieved |-> achieved, apiName |-> name, unlockTime |-> unlockTime]

\* unlock times that interleave across games and tie now and then
UnlockTime(i, j) == ((i * 3 + j * 5) % 11) + 1

\* what the gateway holds for game i: four unlocks not in order of time
\* ("dense"); a locked achievement, one achieved without a time and two
\* unlocks ("mixed"); nothing for the odd games ("sparse")
Achievements(profile, i) ==
    IF profile = "dense" \/ (profile = "sparse" /\ i % 2 = 0)
    THEN <<Unlock("a", TRUE, UnlockTime(i, 1)), Unlock("b", TRUE, UnlockTime(i, 2)),
           Unlock("c", TRUE, UnlockTime(i, 3)), Unlock("d", TRUE, UnlockTime(i, 4))>>
    ELSE IF profile = "mixed"
    THEN <<Unlock("a", FALSE, UnlockTime(i, 1)), Unlock("b", TRUE, 0),
           Unlock("c", TRUE, UnlockTime(i, 3)), Unlock("d", TRUE, UnlockTime(i, 4))>>
    ELSE <<>>

Profiles == {"dense", "mixed", "sparse"}

\* games.filter(hasStats && appId)
HasStatsAndId(game) == game.steamHasStats /\ game.steamAppId # None

\* the filter without the slice
GamesWithStatsUncapped(games) == SelectSeq(games, HasStatsAndId)

\* gamesWithStats: the first GamesCap games with statistics and an app id
GamesWithStats(games) == SliceTo(SelectSeq(games, HasStatsAndId), GamesCap)

\* achievement.achieved && achievement.unlockTime > 0
IsUnlocked(a) == a.achieved /\ a.unlockTime > 0

\* the indices of keys in descending order of key, equal keys in the order
\* they came: Array.prototype.sort with (a, b) => b - a
RECURSIVE InsertIndex(_, _, _)
InsertIndex(perm, i, keys) ==
    IF perm = <<>> THEN <<i>>
    ELSE IF keys[Head(perm)] >= keys[i]
    THEN <<Head(perm)>> \o InsertIndex(Tail(perm), i, keys)
    ELSE <<i>> \o perm

RECURSIVE OrderDesc(_, _)
OrderDesc(keys, n) ==
    IF n = 0 THEN <<>> ELSE InsertIndex(OrderDesc(keys, n - 1), n, keys)

SortDesc(list, keys) ==
    LET perm == OrderDesc(keys, Len(list))
    IN [k \in 1..Len(list) |-> list[perm[k]]]

\* the entry of the view for an unlock of a game
RecentEntry(game, a) ==
    [id |-> <<"achievement-", game.steamAppId[1], a.apiName>>,
     game |-> game.gameTitle,
     unlockedAt |-> a.unlockTime * 1000,
     gameAppId |-> game.steamAppId[1]]

\* recentUnlocks of a game whose achievements the gateway returned
RecentUnlocks(game, achievements) ==
    LET unlocked == SelectSeq(achievements, IsUnlocked)
        sorted == SortDesc(unlocked, [k \in 1..Len(unlocked) |-> unlocked[k].unlockTime])
        top == SliceTo(sorted, PerGameCap)
    IN [k \in 1..Len(top) |-> RecentEntry(game, top[k])]

\* the loop over gamesWithStats from the k-th game on: a game whose
\* achievements the gateway fails to return contributes nothing
RECURSIVE CollectUnlocks(_, _, _, _)
CollectUnlocks(games, profile, failing, k) ==
    IF k > Len(games) THEN <<>>
    ELSE (IF games[k].steamAppId[1] \in failing THEN <<>>
          ELSE RecentUnlocks(games[k], Achievements(profile, games[k].steamAppId[1])))
         \o CollectUnlocks(games, profile, failing, k + 1)

\* recentAchievements.sort(newest first).slice(0, 15)
NewestFirst(entries) ==
    SliceTo(SortDesc(entries, [k \in 1..Len(entries) |-> entries[k].unlockedAt]),
            OverallCap)

\* getRecentAchievements(steamId, games), the gateway holding the
\* achievements of profile and failing for the games in failing
GetRecentAchievements(games, profile, failing) ==
    /\ viewArgs' = Some([games |-> games, profile |-> profile, failing |-> failing])
    /\ viewResult' =
          Some(IF Len(games) = 0 THEN <<>>
               ELSE NewestFirst(CollectUnlocks(GamesWithStats(games), profile, failing, 1)))
    /\ UNCHANGED <<libraryVars, catalogVars, authVars, shelfVars>>

\* the lengths of the lists given: none, one, a few, the cap, past the cap
ShelfSizes == {0, 1, 4, GamesCap, MaxShelf}

NextRecent ==
    \E n \in ShelfSizes, noStats \in {{}, {1}, {2, 5}}, noId \in {{}, {3}} :
        \E profile \in Profiles, failing \in {{}, {1}, {4, 10}} :
            GetRecentAchievements(Shelf(n, noStats, noId), profile, failing)

SpecRecent == InitCatalog /\ [][NextRecent]_vars

-----------------------------------------------------------------------------
(* getRecentActivity: the activity feed, in the service and on the profile *)

\* the caps of the feed
PlayedCap == 5

FinishedCap == 3

ActivityCap == 10

\* new Date(undefined).getTime(), and a date a comparison cannot order
NaN == None

\* an entry as both feeds read it: steamLastPlayed is Some(time) or absent
ActivityGame(i, lastPlayed, recent, total, status) ==
    [appId |-> i,
     status |-> status,
     steamPlaytimeTotal |-> total,
     steamPlaytimeRecent |-> recent,
     steamLastPlayed |-> lastPlayed]

\* last-played times that do not follow the order of the list
PlayedAt(i) == ((i * 3) % 7) + 1

\* the lists given: n entries, those in played with recent playtime, those
\* in untouched with no playtime at all, those in finished marked finished
\* by the user, those in undated without a last-played date
Entries(n, played, untouched, finished, undated) ==
    [i \in 1..n |->
        ActivityGame(i,
                     IF i \in undated THEN None ELSE Some(PlayedAt(i)),
                     IF i \in played /\ i \notin untouched THEN 30 ELSE 0,
                     IF i \in untouched THEN 0 ELSE 120,
                     IF i \in finished THEN "finished"
                     ELSE IF i \in played /\ i \notin untouched THEN "playing"
                     ELSE "paused")]

\* (a, b) => time(b) - time(a) puts b before a: exactly when both times are
\* numbers and b's is the greater; a NaN difference counts as 0
Before(tb, ta) == tb # NaN /\ ta # NaN /\ tb[1] > ta[1]

\* the indices of times in the order the sort leaves them, the entries the
\* comparator does not order keeping the order they came in
RECURSIVE InsertDated(_, _, _)
InsertDated(perm, i, times) ==
    IF perm = <<>> THEN <<i>>
    ELSE IF Before(times[i], times[Head(perm)]) THEN <<i>> \o perm
    ELSE <<Head(perm)>> \o InsertDated(Tail(perm), i, times)

RECURSIVE OrderDated(_, _)
OrderDated(times, n) ==
    IF n = 0 THEN <<>> ELSE InsertDated(OrderDated(times, n - 1), n, times)

SortDated(list, times) ==
    LET perm == OrderDated(times, Len(list))
    IN [k \in 1..Len(list) |-> list[perm[k]]]

\* new Date(game.steamLastPlayed || 0).getTime(), and the profile's
\* steamLastPlayed ? getTime() : 0
TimeOrZero(game) ==
    IF game.steamLastPlayed = None THEN Some(0) ELSE game.steamLastPlayed

\* an item of the feed
Activity(action, game) ==
    [id |-> <<action, game.appId>>,
     timestamp |-> game.steamLastPlayed,
     action |-> action]

\* timestamp: game.steamLastPlayed || new Date().toISOString()
ActivityNow(action, game, t) ==
    [id |-> <<action, game.appId>>,
     timestamp |-> IF game.steamLastPlayed = None THEN Some(t)
                   ELSE game.steamLastPlayed,
     action |-> action]

IsRecentlyPlayed(game) ==
    game.steamLastPlayed # None /\ game.steamPlaytimeRecent > 0

IsFinishedByPlaytime(game) ==
    game.steamPlaytimeTotal > 0 /\ game.steamPlaytimeRecent = 0

IsFinishedByStatus(game) == game.status = "finished"

\* filter, sort newest first, slice, map
Group(kept, cap, action) ==
    LET sorted == SortDated(kept, [k \in 1..Len(kept) |-> TimeOrZero(kept[k])])
        top == SliceTo(sorted, cap)
    IN [k \in 1..Len(top) |-> Activity(action, top[k])]

\* activities.sort(newest first).slice(0, 10)
MergeActivities(items) ==
    SliceTo(SortDated(items, [k \in 1..Len(items) |-> items[k].timestamp]),
            ActivityCap)

\* SteamAmplifyService.getRecentActivity(steamGames)
GetRecentActivity(games) ==
    IF Len(games) = 0 THEN <<>>
    ELSE MergeActivities(Group(SelectSeq(games, IsRecentlyPlayed), PlayedCap, "played")
                         \o Group(SelectSeq(games, IsFinishedByPlaytime), FinishedCap,
                                  "finished"))

\* the profile's finished group: the date of an undated entry is the time of
\* rendering t
ProfileFinished(games, t) ==
    LET kept == SelectSeq(games, IsFinishedByStatus)
        sorted == SortDated(kept, [k \in 1..Len(kept) |-> TimeOrZero(kept[k])])
        top == SliceTo(sorted, FinishedCap)
    IN [k \in 1..Len(top) |-> ActivityNow("finished", top[k], t)]

\* Profile.getRecentActivity() over the page's steamGames, rendered at t
ProfileRecentActivity(connected, games, t) ==
    IF connected /\ Len(games) > 0
    THEN MergeActivities(Group(SelectSeq(games, IsRecentlyPlayed), PlayedCap, "played")
                         \o ProfileFinished(games, t))
    ELSE <<>>

\* the time the profile is rendered at, later than every last-played date
RenderedAt == 100

\* the profile page renders its feed over a list of entries; service is
\* what the service function gives for the same list
RenderActivity(connected, games) ==
    /\ viewArgs' = Some([games |-> games, connected |-> connected])
    /\ viewResult' = Some([profile |-> ProfileRecentActivity(connected, games, RenderedAt),
                           service |-> GetRecentActivity(games)])
    /\ UNCHANGED <<libraryVars, catalogVars, authVars, shelfVars>>

FeedSizes == {0, 1, 4, MaxFeed}

NextActivity ==
    \E n \in FeedSizes, played \in {{}, {1, 2}, {2, 4, 6}, 1..MaxFeed} :
        \E untouched \in {{}, {4}}, finished \in {{}, {1}, {2, 3, 5}},
           undated \in {{}, {3}}, connected \in BOOLEAN :
            RenderActivity(connected, Entries(n, played, untouched, finished, undated))

SpecActivity == InitCatalog /\ [][NextActivity]_vars

-----------------------------------------------------------------------------
(* formatPlaytime and getAchievementProgress *)

\* a formatted text: a number and the text after it, then, for the two-part
\* form, a second number and the text after that
Text(n1, w1, n2, w2) == [n1 |-> n1, w1 |-> w1, n2 |-> n2, w2 |-> w2]

OnePart(n, w) == Text(n, w, None, "")

\* the plural suffix put after every number
Plural(n) == "s"

\* `${n} unit${n !== 1 ? 's' : ''}`
Suffix(n) == IF n # 1 THEN "s" ELSE ""

\* " minute" and " hour" followed by the suffix
Unit(word, suffix) == [suffix |-> suffix, word |-> word]

\* formatPlaytime(minutes)
FormatPlaytime(minutes) ==
    LET hours == minutes \div 60
        remainingMinutes == minutes % 60
    IN IF minutes = 0 THEN OnePart(0, Unit(" minute", "s"))
       ELSE IF hours = 0
       THEN OnePart(remainingMinutes, Unit(" minute", Suffix(remainingMinutes)))
       ELSE IF remainingMinutes = 0
       THEN OnePart(hours, Unit(" hour", Suffix(hours)))
       ELSE Text(hours, Unit("h ", ""), Some(remainingMinutes), "m")

\* a playtime is formatted
FormatsPlaytime(minutes) ==
    /\ viewArgs' = Some([minutes |-> minutes])
    /\ viewResult' = Some([text |-> FormatPlaytime(minutes)])
    /\ UNCHANGED <<libraryVars, catalogVars, authVars, shelfVars>>

NextPlaytime == \E minutes \in 0..MaxMinutes : FormatsPlaytime(minutes)

SpecPlaytime == InitCatalog /\ [][NextPlaytime]_vars

\* an achievement list of n items of which k are achieved, the achieved ones
\* first or last; absent is the list not being there
AchievementList(n, k, achievedFirst) ==
    [i \in 1..n |-> [achieved |-> IF achievedFirst THEN i <= k ELSE i > n - k,
                     apiName |-> i]]

Absent == None

IsAchieved(a) == a.achieved

\* Math.round(x) of the quotient num / den of naturals, den > 0
RoundRatioDown(num, den) == num \div den

RoundRatio(num, den) == (2 * num + den) \div (2 * den)

\* getAchievementProgress(achievements); the list is Some(list) or Absent
GetAchievementProgress(achievements) ==
    IF achievements = Absent THEN 0
    ELSE IF Len(achievements[1]) = 0 THEN 0
    ELSE RoundRatio(Len(SelectSeq(achievements[1], IsAchieved)) * 100,
                    Len(achievements[1]))

\* the progress of a list is taken
TakesProgress(achievements) ==
    /\ viewArgs' = Some([achievements |-> achievements])
    /\ viewResult' = Some([progress |-> GetAchievementProgress(achievements)])
    /\ UNCHANGED <<libraryVars, catalogVars, authVars, shelfVars>>

NextProgress ==
    \/ TakesProgress(Absent)
    \/ \E n \in 0..MaxAchievements, achievedFirst \in BOOLEAN :
          \E k \in 0..n : TakesProgress(Some(AchievementList(n, k, achievedFirst)))

SpecProgress == InitCatalog /\ [][NextProgress]_vars

-----------------------------------------------------------------------------
(* useGameStats and the profile's stats cards *)

MaxEntries == 4

StatusCycle == <<"playing", "finished", "paused", "dropped", "planning">>

StatusAt(i) == StatusCycle[((i - 1) % 5) + 1]

RatingAt(i) == ((i * 2) % 5) + 1

PlaytimeAt(i) == i * 50

\* a library entry of the local store: entry i is rated when i is in rated
\* and has Steam playtime (minutes) when i is in played
StatsEntry(i, rated, played, shift) ==
    [gameId |-> i,
     status |-> StatusAt(i + shift),
     rating |-> IF i \in rated THEN RatingAt(i) ELSE 0,
     steamPlaytimeTotal |-> IF i \in played THEN PlaytimeAt(i) ELSE 0]

StatsEntries(n, rated, played, shift) ==
    [i \in 1..n |-> StatsEntry(i, rated, played, shift)]

\* getSteamGames(): a library entry as the profile displays it
SteamGameDisplay(entry) ==
    [appId |-> entry.gameId,
     playtimeTotal |-> entry.steamPlaytimeTotal,
     status |-> entry.status,
     rating |-> entry.rating,
     steamPlaytimeTotal |-> entry.steamPlaytimeTotal,
     hoursPlayed |-> IF entry.steamPlaytimeTotal # 0
                     THEN RoundDiv60(entry.steamPlaytimeTotal) ELSE 0]

GetSteamGames(entries) == [i \in 1..Len(entries) |-> SteamGameDisplay(entries[i])]

HasAppId(steamGame) == steamGame.appId # 0

\* a game as useGameStats takes it; its hoursPlayed is a number, kept here
\* in tenths of an hour
Game(id, status, rating, tenths) ==
    [id |-> id, status |-> status, rating |-> rating, hoursPlayed |-> tenths]

ConvertedGame(steamGame) ==
    Game(steamGame.appId, steamGame.status, steamGame.rating,
         steamGame.hoursPlayed * 10)

\* convertedGames
ConvertedGames(steamGames) ==
    LET valid == SelectSeq(steamGames, HasAppId)
    IN [i \in 1..Len(valid) |-> ConvertedGame(valid[i])]

\* games.filter(game => game.status === status).length
WithStatus(games, status) ==
    Cardinality({i \in 1..Len(games) : games[i].status = status})

RECURSIVE ReduceSum(_)
\* reduce((sum, x) => sum + x, 0)
ReduceSum(numbers) ==
    IF numbers = <<>> THEN 0
    ELSE ReduceSum(SubSeq(numbers, 1, Len(numbers) - 1)) + numbers[Len(numbers)]

RatingOf(game) == game.rating

HoursOf(game) == game.hoursPlayed

IsRated(game) == game.rating > 0

\* the average, as tenths: Math.round(averageRating * 10)
AverageTenths(ratedGames) ==
    RoundRatio(ReduceSum([k \in 1..Len(ratedGames) |-> RatingOf(ratedGames[k])]) * 10,
               Len(ratedGames))

\* useGameStats(games); averageRating is held in tenths
UseGameStats(games) ==
    LET ratedGames == SelectSeq(games, IsRated)
    IN [finished |-> WithStatus(games, "finished"),
        totalGames |-> Len(games),
        playing |-> WithStatus(games, "playing"),
        paused |-> WithStatus(games, "paused"),
        dropped |-> WithStatus(games, "dropped"),
        planning |-> WithStatus(games, "planning"),
        averageRating |-> IF Len(ratedGames) > 0
                          THEN AverageTenths(ratedGames) ELSE 0,
        totalHoursPlayed |-> RoundRatio(ReduceSum([k \in 1..Len(games) |-> HoursOf(games[k])]), 10)]

\* what the stats cards show without a Steam connection
DemoOwned == 127
DemoCompleted == 89
DemoRating == 42
DemoHours == 1247

\* 'N/A' on the rating card
NotAvailable == None

HasRating(g) == g.rating # 0

\* the hours card adds, per game, the Steam hours and hoursPlayed
CardHours(g) ==
    LET totalPlaytime == IF g.playtimeTotal # 0 THEN g.playtimeTotal
                         ELSE g.steamPlaytimeTotal
    IN RoundDiv60(totalPlaytime) + g.hoursPlayed

\* the four stats cards of the profile header; the rating is in tenths
StatsCards(connected, steamGames) ==
    LET rated == SelectSeq(steamGames, HasRating)
    IN [rating |-> IF connected
                   THEN IF Len(rated) > 0 THEN Some(AverageTenths(rated))
                        ELSE NotAvailable
                   ELSE Some(DemoRating),
        hours |-> IF connected
                  THEN ReduceSum([k \in 1..Len(steamGames) |-> CardHours(steamGames[k])])
                  ELSE DemoHours,
        owned |-> IF connected THEN Len(steamGames) ELSE DemoOwned,
        completed |-> IF connected THEN WithStatus(steamGames, "finished")
                      ELSE DemoCompleted]

\* the profile renders: the hook runs on convertedGames, the cards on steamGames
RenderStats(connected, entries) ==
    /\ viewArgs' = Some([entries |-> entries, connected |-> connected])
    /\ viewResult' = Some([stats |-> UseGameStats(ConvertedGames(GetSteamGames(entries))),
                           games |-> ConvertedGames(GetSteamGames(entries)),
                           cards |-> Some(StatsCards(connected, GetSteamGames(entries)))])
    /\ UNCHANGED <<libraryVars, catalogVars, authVars, shelfVars>>

\* games whose hours carry a fraction, for the hook alone
FractionalGames(n, rated, halves) ==
    [i \in 1..n |-> Game(i, StatusAt(i), IF i \in rated THEN RatingAt(i) ELSE 0,
                         IF i \in halves THEN 5 ELSE 12)]

\* the hook is given a list of games
TakeStats(games) ==
    /\ viewArgs' = Some([entries |-> <<>>, connected |-> FALSE])
    /\ viewResult' = Some([stats |-> UseGameStats(games),
                           games |-> games,
                           cards |-> None])
    /\ UNCHANGED <<libraryVars, catalogVars, authVars, shelfVars>>

IndexSets(n) == {{}, 1..n, {i \in 1..n : i % 2 = 1}}

NextStats ==
    \/ \E n \in 0..MaxEntries, connected \in BOOLEAN, shift \in 0..1 :
          \E rated \in IndexSets(n), played \in IndexSets(n) :
             RenderStats(connected, StatsEntries(n, rated, played, shift))
    \/ \E n \in 0..MaxEntries :
          \E rated \in IndexSets(n), halves \in IndexSets(n) :
             TakeStats(FractionalGames(n, rated, halves))

SpecStats == InitCatalog /\ [][NextStats]_vars


-----------------------------------------------------------------------------
(* AuthService: the session check, loadUserData, register, confirmSignUp,
   login and logout, one action per call and per await *)

MaxAuthCalls == 3

\* the id the identity gateway gives the account
CognitoId == <<"cognito-", 1>>

\* `user-${Date.now()}`, the id confirmSignUp makes up; n stands for the time
TempId(n) == <<"user-", n>>

\* a call in flight: suspended on the await named by pc, holding the user id
\* it has obtained so far
Proc(id, op, pc, userId) == [userId |-> userId, id |-> id, pc |-> pc, op |-> op]

\* the constructor's checkExistingSession
ConstructorCheck == Proc(0, "check", "getUser", None)

\* new AuthService(): the constructor has started its session check; the
\* account exists with its User row and maybe a session, or does not exist;
\* one listener is registered and was told the state at once
AuthInit ==
    /\ currentUser = None
    /\ heard = FALSE
    /\ account \in {"none", "confirmed"}
    /\ session \in IF account = "confirmed" THEN BOOLEAN ELSE {FALSE}
    /\ userIds = IF account = "confirmed" THEN {CognitoId} ELSE {}
    /\ procs = {ConstructorCheck}
    /\ nAuth = 0
    /\ quiet = FALSE

\* a call is made and suspends on its first await
Start(op, pc) ==
    /\ nAuth < MaxAuthCalls
    /\ nAuth' = nAuth + 1
    /\ procs' = procs \cup {Proc(nAuth + 1, op, pc, None)}

\* the call settles
End(p) == procs' = procs \ {p}

\* the call goes on to its next await
Move(p, pc, userId) ==
    procs' = (procs \ {p}) \cup {Proc(p.id, p.op, pc, userId)}

\* this.currentUser = user; this.notifyListeners()
SetUser(user) == currentUser' = user /\ heard' = (user # None)

AuthFrame == UNCHANGED <<libraryVars, catalogVars, viewVars, shelfVars>>

\* refreshAuthState(): checkExistingSession is called
RefreshAuthState ==
    /\ Start("check", "getUser")
    /\ quiet' = FALSE
    /\ UNCHANGED <<currentUser, heard, session, account, userIds>>
    /\ AuthFrame

\* checkExistingSession, await getCurrentUser(): with a session it goes on to
\* loadUserData(user.userId); without one the gateway throws and the catch
\* clears the user
CheckGetsUser(p) ==
    /\ p \in procs /\ p.op = "check" /\ p.pc = "getUser"
    /\ IF session
       THEN /\ Move(p, "get", Some(CognitoId))
            /\ UNCHANGED <<currentUser, heard>>
       ELSE /\ End(p)
            /\ SetUser(None)
    /\ UNCHANGED <<session, account, userIds, nAuth, quiet>>
    /\ AuthFrame

\* loadUserData, await client.models.User.get({id: userId}): a row found
\* becomes the current user; none found, the record is to be created; a
\* rejection clears the user
LoadUserDataGet(p, out) ==
    /\ p \in procs /\ p.pc = "get"
    /\ out \in DataOutcomes
    /\ IF out = "throws"
       THEN End(p) /\ SetUser(None)
       ELSE IF p.userId[1] \in userIds
       THEN End(p) /\ SetUser(p.userId)
       ELSE Move(p, "cognito", p.userId) /\ UNCHANGED <<currentUser, heard>>
    /\ UNCHANGED <<session, account, userIds, nAuth, quiet>>
    /\ AuthFrame

\* loadUserData, await getCurrentUser() and await fetchUserAttributes(): each
\* throws without a session, and the catch clears the user
LoadUserDataAttributes(p) ==
    /\ p \in procs /\ p.pc \in {"cognito", "attributes"}
    /\ IF session
       THEN /\ Move(p, IF p.pc = "cognito" THEN "attributes" ELSE "create",
                    p.userId)
            /\ UNCHANGED <<currentUser, heard>>
       ELSE /\ End(p)
            /\ SetUser(None)
    /\ UNCHANGED <<session, account, userIds, nAuth, quiet>>
    /\ AuthFrame

\* loadUserData, await client.models.User.create({id: userId, ...})
LoadUserDataCreate(p, out) ==
    /\ p \in procs /\ p.pc = "create"
    /\ out \in DataOutcomes
    /\ End(p)
    /\ IF out = "ok"
       THEN /\ userIds' = userIds \cup {p.userId[1]}
            /\ SetUser(p.userId)
       ELSE /\ SetUser(None)
            /\ UNCHANGED userIds
    /\ UNCHANGED <<session, account, nAuth, quiet>>
    /\ AuthFrame

\* login(email, password): with a current user it returns it at once
Login ==
    /\ IF currentUser # None
       THEN nAuth < MaxAuthCalls /\ nAuth' = nAuth + 1 /\ UNCHANGED procs
       ELSE Start("login", "signIn")
    /\ quiet' = FALSE
    /\ UNCHANGED <<currentUser, heard, session, account, userIds>>
    /\ AuthFrame

\* login, await signIn(): it signs a confirmed account in; it throws for an
\* unknown or unconfirmed account or wrong credentials, and login rethrows;
\* with a session already there it throws too, and the catch loads the
\* existing session when the message names UserAlreadyAuthenticatedException
LoginSignsIn(p, out) ==
    /\ p \in procs /\ p.op = "login" /\ p.pc = "signIn"
    /\ out \in {"ok", "throws"}
    /\ IF session
       THEN /\ IF out = "ok" THEN Move(p, "getUser", None) ELSE End(p)
            /\ UNCHANGED session
       ELSE IF account = "confirmed" /\ out = "ok"
       THEN /\ session' = TRUE
            /\ Move(p, "getUser", None)
       ELSE /\ out = "throws"
            /\ End(p)
            /\ UNCHANGED session
    /\ UNCHANGED <<currentUser, heard, account, userIds, nAuth, quiet>>
    /\ AuthFrame

\* login, await getCurrentUser(): without a session it throws and login
\* rethrows, leaving the current user as it is
LoginGetsUser(p) ==
    /\ p \in procs /\ p.op = "login" /\ p.pc = "getUser"
    /\ IF session THEN Move(p, "get", Some(CognitoId)) ELSE End(p)
    /\ UNCHANGED <<currentUser, heard, session, account, userIds, nAuth, quiet>>
    /\ AuthFrame

\* register(email, password, userHandle)
Register ==
    /\ Start("register", "signUp")
    /\ quiet' = FALSE
    /\ UNCHANGED <<currentUser, heard, session, account, userIds>>
    /\ AuthFrame

\* register, await signUp(): the sign-up is complete, or a confirmation is
\* required and register returns, or the gateway throws (as it does when the
\* account exists)
RegisterSignsUp(p, out) ==
    /\ p \in procs /\ p.op = "register" /\ p.pc = "signUp"
    /\ out \in {"complete", "confirmation", "throws"}
    /\ account # "none" => out = "throws"
    /\ account' = IF out = "complete" THEN "confirmed"
                  ELSE IF out = "confirmation" THEN "unconfirmed"
                  ELSE account
    /\ IF out = "complete" THEN Move(p, "createUser", Some(CognitoId))
       ELSE End(p)
    /\ UNCHANGED <<currentUser, heard, session, userIds, nAuth, quiet>>
    /\ AuthFrame

\* register, await client.models.User.create({id: userId, ...}), then the new
\* user becomes the current user
RegisterCreates(p, out) ==
    /\ p \in procs /\ p.op = "register" /\ p.pc = "createUser"
    /\ out \in DataOutcomes
    /\ End(p)
    /\ IF out = "ok"
       THEN /\ userIds' = userIds \cup {p.userId[1]}
            /\ SetUser(p.userId)
       ELSE UNCHANGED <<userIds, currentUser, heard>>
    /\ UNCHANGED <<session, account, nAuth, quiet>>
    /\ AuthFrame

\* confirmSignUp(email, confirmationCode, userHandle)
ConfirmSignUp ==
    /\ Start("confirm", "confirm")
    /\ UNCHANGED <<currentUser, heard, session, account, userIds, quiet>>
    /\ AuthFrame

\* confirmSignUp, await confirmSignUp(): an account awaiting confirmation is
\* confirmed; tempUserId is made from the clock
ConfirmConfirms(p, out) ==
    /\ p \in procs /\ p.op = "confirm" /\ p.pc = "confirm"
    /\ out \in {"ok", "throws"}
    /\ account # "unconfirmed" => out = "throws"
    /\ account' = IF out = "ok" THEN "confirmed" ELSE account
    /\ IF out = "ok" THEN Move(p, "createTemp", Some(TempId(p.id))) ELSE End(p)
    /\ UNCHANGED <<currentUser, heard, session, userIds, nAuth, quiet>>
    /\ AuthFrame

\* confirmSignUp, await client.models.User.create({id: tempUserId, ...})
ConfirmCreates(p, out) ==
    /\ p \in procs /\ p.op = "confirm" /\ p.pc = "createTemp"
    /\ out \in DataOutcomes
    /\ End(p)
    /\ userIds' = IF out = "ok" THEN userIds \cup {p.userId[1]} ELSE userIds
    /\ UNCHANGED <<currentUser, heard, session, account, nAuth, quiet>>
    /\ AuthFrame

\* logout()
Logout ==
    /\ Start("logout", "signOut")
    /\ UNCHANGED <<currentUser, heard, session, account, userIds, quiet>>
    /\ AuthFrame

\* logout, await signOut(): whether it resolves or throws, the current user
\* is cleared and the listeners are told; then logout resolves
LogoutSignsOut(p, out) ==
    /\ p \in procs /\ p.op = "logout" /\ p.pc = "signOut"
    /\ out \in {"ok", "throws"}
    /\ session' = IF out = "ok" THEN FALSE ELSE session
    /\ SetUser(None)
    /\ End(p)
    /\ quiet' = TRUE
    /\ UNCHANGED <<account, userIds, nAuth>>
    /\ AuthFrame

NextAuth ==
    \/ RefreshAuthState
    \/ Login
    \/ Register
    \/ ConfirmSignUp
    \/ Logout
    \/ \E p \in procs : CheckGetsUser(p)
    \/ \E p \in procs, out \in DataOutcomes : LoadUserDataGet(p, out)
    \/ \E p \in procs : LoadUserDataAttributes(p)
    \/ \E p \in procs, out \in DataOutcomes : LoadUserDataCreate(p, out)
    \/ \E p \in procs, out \in {"ok", "throws"} : LoginSignsIn(p, out)
    \/ \E p \in procs : LoginGetsUser(p)
    \/ \E p \in procs, out \in {"complete", "confirmation", "throws"} :
          RegisterSignsUp(p, out)
    \/ \E p \in procs, out \in DataOutcomes : RegisterCreates(p, out)
    \/ \E p \in procs, out \in {"ok", "throws"} : ConfirmConfirms(p, out)
    \/ \E p \in procs, out \in DataOutcomes : ConfirmCreates(p, out)
    \/ \E p \in procs, out \in {"ok", "throws"} : LogoutSignsOut(p, out)

\* the library and the catalog at rest while the auth service is exercised
InitAuth ==
    /\ LibraryInit /\ upstream = None /\ CatalogInit /\ ViewInit
    /\ AuthInit /\ ShelfInit

SpecAuth == InitAuth /\ [][NextAuth]_vars


-----------------------------------------------------------------------------
(* The my-games collection, added to from the catalog page and from the
   profile page *)

\* the Steam application ids of the games offered on both pages
AppIds == {10, 20, 30}

\* the value of an appid field: the number n, or the string n.toString();
\* === holds between two values of the same type and digits only
Num(n) == <<"number", n>>

Str(n) == <<"string", n>>

\* the entry both handlers push
MyGame(appid) == [status |-> "wishlist", appid |-> appid]

\* existingGames.some(g => g.appid === value)
AlreadyThere(existingGames, value) ==
    \E k \in 1..Len(existingGames) : existingGames[k].appid = value

\* the push both handlers make unless the game is found
AddGame(value) ==
    myGames' = IF AlreadyThere(myGames, value) THEN myGames
               ELSE Append(myGames, MyGame(value))

ShelfFrame == UNCHANGED <<libraryVars, catalogVars, viewVars, authVars>>

\* Library.handleAddToMyGames(game): a catalog entry, whose appid is a number
LibraryAddToMyGames(n) ==
    /\ currentUser # None
    /\ AddGame(Num(n))
    /\ ShelfFrame

\* Profile.handleAddToMyGames(game): a game of currentlyPlaying, whose id is
\* appId.toString()
ProfileAddToMyGames(n) ==
    /\ currentUser # None
    /\ AddGame(Str(n))
    /\ ShelfFrame

\* Profile.handleRemoveFromMyGames(game.appid), from the card of entry k
ProfileRemoveFromMyGames(k) ==
    /\ currentUser # None
    /\ k \in 1..Len(myGames)
    /\ myGames' = SelectSeq(myGames, LAMBDA g : g.appid # myGames[k].appid)
    /\ ShelfFrame

NextShelf ==
    \/ \E n \in AppIds : LibraryAddToMyGames(n)
    \/ \E n \in AppIds : ProfileAddToMyGames(n)
    \/ \E k \in 1..(2 * Cardinality(AppIds)) : ProfileRemoveFromMyGames(k)

\* a user is signed in and has no collection yet
InitShelf ==
    /\ LibraryInit /\ upstream = None /\ CatalogInit /\ ViewInit
    /\ currentUser = Some(CognitoId)
    /\ heard = TRUE
    /\ session = TRUE
    /\ account = "confirmed"
    /\ userIds = {CognitoId}
    /\ procs = {}
    /\ nAuth = 0
    /\ quiet = FALSE
    /\ ShelfInit

SpecShelf == InitShelf /\ [][NextShelf]_vars


-----------------------------------------------------------------------------
(* Properties of the TTL cache *)

\* the record stored under a key, if the key holds one
RecordUnder(c, key) ==
    IF StorageGet(c, key) # None /\ StorageGet(c, key)[1].kind = "record"
    THEN StorageGet(c, key)
    ELSE None

\* every property read from the entries of b gives what it gives on a
SameGames(a, b) ==
    /\ Len(a) = Len(b)
    /\ \A k \in 1..Len(a) :
          /\ a[k].appid = b[k].appid /\ a[k].name = b[k].name
          /\ a[k].source = b[k].source
          /\ a[k].last_updated = b[k].last_updated
          /\ ReadProperty(a[k].metacritic_score) = ReadProperty(b[k].metacritic_score)

\* age is within the ttl
Within(age, maxAge) == maxAge = Infinity \/ age <= maxAge[1]

\* C11: a get that directly follows a set of the same key which localStorage
\* accepted returns the payload that was set, equal in every property; and
\* any get returns the payload if and only if a record is stored under the
\* key and now - captured_at <= ttl, so that a record older than the ttl
\* reads as absent
C11_CacheRoundTripAndExpiry ==
    [][(ret'.op = "get" /\ nCalls' = nCalls + 1) =>
          /\ (ret.op = "set" /\ ret.stored /\ ret.key = ret'.key /\ ret.at = now)
                => /\ ret'.value # None
                   /\ SameGames(ret'.value[1], ret.given)
          /\ ret'.value # None <=>
                /\ RecordUnder(cache, ret'.key) # None
                /\ Within(now - RecordUnder(cache, ret'.key)[1].timestamp, ret'.maxAge)
          /\ ret'.value # None =>
                ret'.value[1] = RecordUnder(cache, ret'.key)[1].data]_vars

\* a get with the trending ttl returned a two-entry list written exactly one
\* ttl earlier, the review score left undefined by the round trip
C11_Witness ==
    /\ ret.op = "get" /\ ret.maxAge = Some(TrendingDuration)
    /\ now = TrendingDuration
    /\ ret.value # None /\ Len(ret.value[1]) = 2
    /\ ret.value[1][1].last_updated = 0
    /\ ret.value[1][2].metacritic_score = NoProperty
    /\ RecordUnder(cache, ret.key) # None
    /\ RecordUnder(cache, ret.key)[1].timestamp = 0

\* C12: a get that finds a record older than the ttl reports absent and
\* leaves localStorage as it was, the stale record included
C12_StaleReadKeepsRecord ==
    [][(ret'.op = "get" /\ nCalls' = nCalls + 1
          /\ RecordUnder(cache, ret'.key) # None
          /\ ~Within(now - RecordUnder(cache, ret'.key)[1].timestamp, ret'.maxAge))
        => /\ ret'.value = None
           /\ cache' = cache]_vars

\* the key begins with one of the four cache prefixes
HasCachePrefix(e) ==
    \E k \in 1..Len(CachePrefixes) : e.key.prefix = CachePrefixes[k]

KeepsForeignKeys(e) == ~HasCachePrefix(e)

\* C14: after clearCache no stored key begins with a cache prefix, however
\* many there were and in whatever order, and every other key is as it was
C14_ClearRemovesEveryCacheKey ==
    [][(ret'.op = "clear" /\ nCalls' = nCalls + 1)
         => cache' = SelectSeq(cache, KeepsForeignKeys)]_vars

-----------------------------------------------------------------------------
(* Properties of the catalog operations *)

\* the step is a call of the catalog operation op
CatalogCall(op) == ret'.op = op /\ nCalls' = nCalls + 1

\* the call went to its endpoint and the fetch or its parsing failed
FetchFailed(r) == r.calls > 0 /\ r.raws = None

\* the call went to its endpoint and got its list
FetchAnswered(r) == r.calls > 0 /\ r.raws # None

\* C13: a trending call whose fetch or parsing fails returns the list of the
\* record stored under its key if there is one, whatever its age, and the
\* empty list only when there is none, and it does not raise; a non-forced
\* call after the record has expired included
C13_TrendingFallsBackToStale ==
    [][(CatalogCall("trending") /\ FetchFailed(ret')) =>
          /\ ~ret'.raised
          /\ ret'.value = IF RecordUnder(cache, ret'.key) # None
                          THEN RecordUnder(cache, ret'.key)[1].data
                          ELSE <<>>]_vars

\* C15: a trending call that follows, within the ttl, a call for the same
\* limit which fetched and stored its list makes no fetch and returns the
\* stored list; a forced call makes one fetch whatever the age of the
\* record, and when the endpoint answers and localStorage takes the write
\* the record under the key is the new list captured now
C15_OneFetchWithinTtlAndForcedRefetch ==
    [][CatalogCall("trending") =>
          /\ (/\ ret.op = "trending" /\ FetchAnswered(ret) /\ ret.stored
              /\ ret.key = ret'.key /\ ~ret'.force
              /\ now - ret.at <= TrendingDuration)
                => /\ nFetch' = nFetch
                   /\ ret'.calls = 0
                   /\ ret'.value = JsonGames(ret.value)
          /\ ret'.force =>
                /\ nFetch' = nFetch + 1
                /\ (FetchAnswered(ret') /\ ret'.stored) =>
                      RecordUnder(cache', ret'.key)
                          = Some(CacheRecord(JsonGames(ret'.value), now))]_vars

\* three calls for one limit: the first fetched, the second was served from
\* the cache, the third was forced and fetched again, two fetches in all, and
\* its list took the place of the first
C15_Witness ==
    /\ nCalls = 3 /\ nFetch = 2 /\ now = 0
    /\ ret.op = "trending" /\ ret.force /\ ret.limit = 5
    /\ FetchAnswered(ret) /\ ret.stored /\ Len(ret.value) = 2
    /\ \A k \in 1..Len(cache) :
          cache[k].key.prefix = CachePrefixes[1] => cache[k].key = ret.key
    /\ RecordUnder(cache, ret.key) = Some(CacheRecord(JsonGames(ret.value), 0))

\* the result of a catalog call holds no game
EmptyResult(r) ==
    IF r.op = "search" THEN r.value.games = <<>> ELSE r.value = <<>>

\* C16: a trending, search or genre call with a zero or negative limit does
\* not raise, makes no network call and returns an empty result
C16_NoItemsRequested ==
    [][((CatalogCall("trending") \/ CatalogCall("search") \/ CatalogCall("genre"))
          /\ ret'.limit <= 0) =>
          /\ ~ret'.raised
          /\ ret'.calls = 0
          /\ EmptyResult(ret')]_vars

\* the key holds something that does not decode to a record
Malformed(c, key) == StorageGet(c, key) # None /\ RecordUnder(c, key) = None

\* C17: a get of a key holding malformed data reports absent and does not
\* raise; a non-forced trending call on such a key does not raise and goes
\* on to fetch, and if that fetch fails it returns the empty list as with
\* nothing cached
C17_MalformedIsMiss ==
    [][/\ (CatalogCall("get") /\ Malformed(cache, ret'.key)) =>
              (ret'.value = None /\ ~ret'.raised)
       /\ (CatalogCall("trending") /\ ~ret'.force /\ Malformed(cache, ret'.key)) =>
              /\ ~ret'.raised
              /\ nFetch' = nFetch + 1
              /\ ret'.calls > 0
              /\ FetchFailed(ret') => ret'.value = <<>>]_vars

\* a non-forced trending call found undecodable data under its key, fetched
\* its two games, and localStorage refused the write, so that the data is
\* still there
C17_Witness ==
    /\ ret.op = "trending" /\ ~ret.force /\ ~ret.raised
    /\ FetchAnswered(ret) /\ ~ret.stored /\ Len(ret.value) = 2
    /\ StorageGet(cache, ret.key) = Some(SyntaxError)
    /\ nFetch = 1

\* every key of localStorage d holds what it held in c
NothingWritten(c, d) ==
    \A k \in 1..Len(d) : StorageGet(c, d[k].key) = Some(d[k].item)

\* C18: a search call does not raise and its result carries the page and
\* the limit of the caller; when the store search fails or answers without
\* items the result is {games: [], total: 0, page, limit}, and the call
\* leaves no record under its key and writes nothing to localStorage
C18_SearchNeverRaises ==
    [][CatalogCall("search") =>
          /\ ~ret'.raised
          /\ ret'.value.page = ret'.key.suffix[3]
          /\ ret'.value.limit = ret'.limit
          /\ FetchFailed(ret') =>
                /\ ret'.value = SearchResult(<<>>, 0, ret'.key.suffix[3], ret'.limit)
                /\ RecordUnder(cache', ret'.key) = None
                /\ NothingWritten(cache, cache')]_vars

\* a search for page 2 failed after an earlier search had stored a result
\* under another key
C18_Witness ==
    /\ ret.op = "search" /\ FetchFailed(ret) /\ ~ret.raised
    /\ ret.value = SearchResult(<<>>, 0, 2, 20)
    /\ ret.key = SearchKey("q", 20, 2)
    /\ RecordUnder(cache, ret.key) = None
    /\ RecordUnder(cache, SearchKey("q", 20, 1)) # None

\* entry is what enrichGameData may push for raw at time t when localStorage
\* was c: the detail record, fetched now or cached, or the basic transform
EnrichedFrom(entry, raw, c, t) ==
    \/ entry = BasicEntry(raw, t)
    \/ entry = DetailEntry(raw, t)
    \/ /\ RecordUnder(c, DetailsKey(raw.appid)) # None
       /\ entry = RecordUnder(c, DetailsKey(raw.appid))[1].data

\* C19: the list a trending call gets from enrichGameData has one entry for
\* each raw entry, in the order of the raw entries, each the detail record
\* of that entry or its basic transform, whichever lookups fail
C19_EnrichProcessesFullList ==
    [][(CatalogCall("trending") /\ FetchAnswered(ret')) =>
          /\ Len(ret'.value) = Len(ret'.raws[1])
          /\ \A k \in 1..Len(ret'.value) :
                /\ ret'.value[k].appid = ret'.raws[1][k].appid
                /\ EnrichedFrom(ret'.value[k], ret'.raws[1][k], cache, now)]_vars

\* the lookup of the first of two raw entries failed and the second was
\* still looked up: a basic entry followed by a detail record
C19_Witness ==
    /\ ret.op = "trending" /\ FetchAnswered(ret)
    /\ Len(ret.raws[1]) = 2 /\ Len(ret.value) = 2
    /\ ret.value[1] = BasicEntry(Ranks[1], now)
    /\ ret.value[2] = DetailEntry(Ranks[2], now)
    /\ ret.calls = 3

-----------------------------------------------------------------------------
(* Properties of getRecentAchievements *)

\* the games of the list that report statistics and carry an app id
Eligible(games) == SelectSeq(games, HasStatsAndId)

\* the app ids of the first n entries of a list of games
FirstIds(games, n) ==
    {games[k].steamAppId[1] : k \in 1..(IF Len(games) < n THEN Len(games) ELSE n)}

\* the unlocks the gateway holds for a game that are achieved with a time
Unlocked(profile, appId) ==
    {a \in {Achievements(profile, appId)[j] : j \in 1..Len(Achievements(profile, appId))} :
        a.achieved /\ a.unlockTime > 0}

\* the unlock of the gateway that an entry of the view shows
ShownUnlock(args, e) ==
    {a \in Unlocked(args.profile, e.gameAppId) :
        e.id[3] = a.apiName /\ e.unlockedAt = a.unlockTime * 1000}

\* C20: the view shows achievements of at most the first 10 games with
\* statistics, each one achieved with a nonzero unlock time, at most 3 of a
\* game and then its most recent ones, at most 15 in all, newest first; of
\* 11 eligible games at most 10 appear
C20_RecentAchievementsCapped ==
    viewResult # None =>
        LET args == viewArgs[1]
            shown == viewResult[1]
            from == {shown[k].gameAppId : k \in 1..Len(shown)}
        IN /\ from \subseteq FirstIds(Eligible(args.games), 10)
           /\ Cardinality(from) <= 10
           /\ \A k \in 1..Len(shown) :
                 /\ ShownUnlock(args, shown[k]) # {}
                 /\ Cardinality({a \in Unlocked(args.profile, shown[k].gameAppId) :
                                    a.unlockTime * 1000 > shown[k].unlockedAt}) < 3
           /\ \A g \in from :
                 Cardinality({k \in 1..Len(shown) : shown[k].gameAppId = g}) <= 3
           /\ Len(shown) <= 15
           /\ \A k \in 1..(Len(shown) - 1) :
                 shown[k].unlockedAt >= shown[k + 1].unlockedAt

\* eleven eligible games, each with four unlocks: fifteen are shown, none of
\* the eleventh game although its latest unlock is later than the last shown
C20_Witness ==
    /\ viewResult # None /\ Len(viewResult[1]) = 15
    /\ Len(viewArgs[1].games) = 11 /\ Len(Eligible(viewArgs[1].games)) = 11
    /\ viewArgs[1].profile = "dense" /\ viewArgs[1].failing = {}
    /\ \A k \in 1..15 : viewResult[1][k].gameAppId # 11
    /\ \E a \in Unlocked("dense", 11) :
          a.unlockTime * 1000 > viewResult[1][15].unlockedAt

-----------------------------------------------------------------------------
(* Properties of the activity feed *)

\* the entries of a list that satisfy a condition, as a set of app ids
PlayedIds(games) ==
    {games[k].appId : k \in {j \in 1..Len(games) :
        games[j].steamLastPlayed # None /\ games[j].steamPlaytimeRecent > 0}}

FinishedIds(games) ==
    {games[k].appId : k \in {j \in 1..Len(games) :
        games[j].steamPlaytimeTotal > 0 /\ games[j].steamPlaytimeRecent = 0}}

\* the app ids of the items of a feed with an action
ShownWith(feed, action) ==
    {feed[k].id[2] : k \in {j \in 1..Len(feed) : feed[j].action = action}}

\* the feed is the claimed one for the games: up to 5 played and up to 3
\* finished by playtime, no game in both, at most 10 items
ClaimedFeed(feed, games) ==
    /\ ShownWith(feed, "played") \subseteq PlayedIds(games)
    /\ ShownWith(feed, "finished") \subseteq FinishedIds(games)
    /\ Cardinality(ShownWith(feed, "played")) <= 5
    /\ Cardinality(ShownWith(feed, "finished")) <= 3
    /\ Cardinality(ShownWith(feed, "played")) =
          (IF Cardinality(PlayedIds(games)) < 5 THEN Cardinality(PlayedIds(games)) ELSE 5)
    /\ Cardinality(ShownWith(feed, "finished")) =
          (IF Cardinality(FinishedIds(games)) < 3 THEN Cardinality(FinishedIds(games)) ELSE 3)
    /\ ShownWith(feed, "played") \cap ShownWith(feed, "finished") = {}
    /\ Len(feed) = Cardinality(ShownWith(feed, "played"))
                     + Cardinality(ShownWith(feed, "finished"))
    /\ Len(feed) <= 10

\* C21: the feed of the service is the up to 5 most recently played entries
\* with recent playtime and the up to 3 entries with playtime but none
\* recent, no entry in both groups, at most 10 items, and the feed the
\* profile of a connected user shows for the same entries is this feed
C21_ActivityFeed ==
    viewResult # None /\ "service" \in DOMAIN viewResult[1] =>
        /\ ClaimedFeed(viewResult[1].service, viewArgs[1].games)
        /\ viewArgs[1].connected =>
              /\ ClaimedFeed(viewResult[1].profile, viewArgs[1].games)
              /\ viewResult[1].profile = viewResult[1].service

-----------------------------------------------------------------------------
(* Properties of formatPlaytime and getAchievementProgress *)

\* the text "X word(s)": the plural s exactly when X is not 1
Counted(x, word) ==
    Text(x, [suffix |-> IF x = 1 THEN "" ELSE "s", word |-> word], None, "")

\* C22: for every minutes >= 0 the text is "0 minutes" for 0, "X minute(s)"
\* below 60, "X hour(s)" for a multiple of 60 and "Xh Ym" otherwise, with
\* X = minutes div 60 and Y = minutes mod 60 and the singular exactly for 1;
\* 59 gives "59 minutes", 60 "1 hour", 90 "1h 30m", 125 "2h 5m"
C22_FormatPlaytime ==
    (viewResult # None /\ "text" \in DOMAIN viewResult[1]) =>
        LET minutes == viewArgs[1].minutes
            text == viewResult[1].text
        IN /\ minutes = 0 => text = Counted(0, " minute")
           /\ (minutes > 0 /\ minutes < 60) => text = Counted(minutes, " minute")
           /\ (minutes >= 60 /\ minutes % 60 = 0) => text = Counted(minutes \div 60, " hour")
           /\ (minutes >= 60 /\ minutes % 60 # 0) =>
                 text = Text(minutes \div 60, [suffix |-> "", word |-> "h "],
                             Some(minutes % 60), "m")
           /\ minutes = 59 => text = Text(59, [suffix |-> "s", word |-> " minute"], None, "")
           /\ minutes = 60 => text = Text(1, [suffix |-> "", word |-> " hour"], None, "")
           /\ minutes = 90 => text = Text(1, [suffix |-> "", word |-> "h "], Some(30), "m")
           /\ minutes = 125 => text = Text(2, [suffix |-> "", word |-> "h "], Some(5), "m")

\* 61 minutes were formatted as "1h 1m"
C22_Witness ==
    /\ viewResult # None /\ "text" \in DOMAIN viewResult[1]
    /\ viewArgs[1].minutes = 61
    /\ viewResult[1].text = Text(1, [suffix |-> "", word |-> "h "], Some(1), "m")

\* the number of achieved items of a list
AchievedCount(list) == Cardinality({i \in 1..Len(list) : list[i].achieved})

\* C23: the progress of an absent or empty list is 0; of any other list it
\* is an integer of 0..100 nearest to the percentage of achieved items; 3
\* achieved of 4 give 75
C23_AchievementProgress ==
    (viewResult # None /\ "progress" \in DOMAIN viewResult[1]) =>
        LET given == viewArgs[1].achievements
            progress == viewResult[1].progress
        IN /\ progress \in 0..100
           /\ (given = Absent \/ given = Some(<<>>)) => progress = 0
           /\ (given # Absent /\ given # Some(<<>>)) =>
                 LET n == Len(given[1])
                     k == AchievedCount(given[1])
                 IN /\ 2 * (progress * n - 100 * k) <= n
                    /\ 2 * (100 * k - progress * n) <= n
           /\ (given # Absent /\ Len(given[1]) = 4 /\ AchievedCount(given[1]) = 3)
                 => progress = 75

\* 2 achieved of 3 gave 67
C23_Witness ==
    /\ viewResult # None /\ "progress" \in DOMAIN viewResult[1]
    /\ viewArgs[1].achievements # Absent
    /\ Len(viewArgs[1].achievements[1]) = 3
    /\ AchievedCount(viewArgs[1].achievements[1]) = 2
    /\ viewResult[1].progress = 67

-----------------------------------------------------------------------------
(* Properties of the aggregate statistics *)

RECURSIVE TotalOf(_, _, _)
\* the sum of a field over the games at the given positions
TotalOf(games, Field(_), positions) ==
    IF positions = {} THEN 0
    ELSE LET i == CHOOSE x \in positions : TRUE
         IN Field(games[i]) + TotalOf(games, Field, positions \ {i})

Nearest(shown, num, den) ==
    /\ 2 * (shown * den - num) <= den
    /\ 2 * (num - shown * den) <= den

\* the statistics the hook returns for its games are the claimed ones
ClaimedStats(games, stats) ==
    LET all == 1..Len(games)
        ratedAt == {i \in all : games[i].rating > 0}
    IN /\ stats.totalGames = Len(games)
       /\ stats.playing + stats.finished + stats.paused + stats.dropped
             + stats.planning = stats.totalGames
       /\ stats.finished = Cardinality({i \in all : games[i].status = "finished"})
       /\ stats.playing = Cardinality({i \in all : games[i].status = "playing"})
       /\ IF ratedAt = {} THEN stats.averageRating = 0
          ELSE Nearest(stats.averageRating, 10 * TotalOf(games, RatingOf, ratedAt),
                       Cardinality(ratedAt))
       /\ Nearest(stats.totalHoursPlayed, TotalOf(games, HoursOf, all), 10)

\* C24: the statistics of a library are a count per status, the five counts
\* summing to the number of entries, the average rating over the rated
\* entries only (0 when none is rated) rounded to one decimal, and the
\* rounded sum of the per-entry hours, each entry counted once; and the
\* profile header shows these same figures
C24_AggregateStatistics ==
    (viewResult # None /\ "stats" \in DOMAIN viewResult[1]) =>
        LET stats == viewResult[1].stats
            cards == viewResult[1].cards
        IN /\ ClaimedStats(viewResult[1].games, stats)
           /\ cards # None =>
                 /\ cards[1].owned = stats.totalGames
                 /\ cards[1].completed = stats.finished
                 /\ cards[1].rating = Some(stats.averageRating)
                 /\ cards[1].hours = stats.totalHoursPlayed

-----------------------------------------------------------------------------
(* Properties of the achievement lists under later syncs *)

\* every entry of the user's library that is there before and after the step
\* has the achievement list it had
KeepsAchievements(u) ==
    (lsLib[u] # None /\ lsLib'[u] # None) =>
        \A k \in 1..Len(lsLib[u][1]), m \in 1..Len(lsLib'[u][1]) :
            lsLib[u][1][k].gameId = lsLib'[u][1][m].gameId =>
                lsLib'[u][1][m].steamAchievements = lsLib[u][1][k].steamAchievements

\* a call of syncGameAchievements, and of disconnectSteamProfile
AchievementSyncStep == task.pc = "achievements" /\ task'.i = task.i + 1

DisconnectStep == last'.call = "disconnect"

\* C25: a syncGameLibrary run leaves the achievement list of every entry that
\* already exists as it was, so achievements attached by an earlier
\* syncGameAchievements are still on the entry after a quick sync; only
\* syncGameAchievements or a disconnect changes them
C25_LibrarySyncKeepsAchievements ==
    [][/\ SyncStep => \A u \in Users : KeepsAchievements(u)
       /\ ~(\A u \in Users : KeepsAchievements(u)) =>
              AchievementSyncStep \/ DisconnectStep]_vars

-----------------------------------------------------------------------------
(* Properties of the profile after a disconnect *)

\* none of the user's three records is in the local store
AllAbsent(u) == lsData[u] = None /\ lsGames[u] = None /\ lsLib[u] = None

\* the last call was the user's disconnect, or a load that followed it
SinceDisconnect(u) ==
    /\ last.user = u
    /\ last.call \in {"disconnect", "loadProfile", "loadGames"}
    /\ AllAbsent(u)

\* a call of loadSteamProfileFromDatabase or loadSteamGamesFromDatabase
LoadStep == last'.call \in {"loadProfile", "loadGames"}

\* C26: after a disconnect the user's profile, owned-games and library-entries
\* records stay absent through every later load of the profile or the games
\* from the data gateway; they come back only with a new connect or sync
C26_DisconnectIsDurable ==
    [][(SinceDisconnect(Me) /\ LoadStep) => AllAbsent(Me)']_vars

-----------------------------------------------------------------------------
(* Properties of a failed connect *)

\* a call of connectSteamProfile that rejected
FailedConnectStep ==
    /\ nFaults' > nFaults
    /\ last'.call = "connect"
    /\ last'.result = "rejected"

\* the local store marks the user as connected
MarkedConnected(store, u) == store[u] # None /\ store[u][1].steamConnected

\* C27: a connectSteamProfile call that fails leaves the user's persisted
\* Steam profile as it was, in the local store and in the User row; when the
\* update of the User row is what failed, no record marking the user as
\* connected is left in the local store
C27_FailedConnectLeavesNoTrace ==
    [][FailedConnectStep =>
          /\ lsData' = lsData
          /\ dbUser' = dbUser
          /\ (last'.cause = "persist" /\ ~MarkedConnected(lsData, last'.user)) =>
                 ~MarkedConnected(lsData', last'.user)]_vars

-----------------------------------------------------------------------------
(* Properties of the auth service *)

\* C28: once logout() has resolved, the session stays unauthenticated
\* (isAuthenticated() is false and the listener's last notification says so)
\* until login, register or refreshAuthState is next called, whatever
\* session check or user-data load started earlier is still pending, and
\* also when signOut failed
C28_LogoutStaysLoggedOut ==
    quiet => currentUser = None /\ heard = FALSE

\* C29: register, confirmSignUp and login create at most one User row for
\* the account, and its id is the identity gateway's user id
C29_OneUserRecord ==
    Cardinality(userIds) <= 1 /\ userIds \subseteq {CognitoId}

-----------------------------------------------------------------------------
(* Properties of the my-games collection *)

\* the game an appid value refers to
GameOf(value) == value[2]

\* the entries of the collection that refer to game n
EntriesOf(games, n) == {k \in 1..Len(games) : GameOf(games[k].appid) = n}

\* C30: the collection never holds the same game twice: after any adds from
\* the catalog page and the profile page and any removes, no two entries
\* refer to the same game, an add of a game already present leaves the
\* collection unchanged, and a remove deletes the game whichever page added it
C30_NoGameTwice ==
    [][\A n \in AppIds :
          /\ Cardinality(EntriesOf(myGames', n)) <= 1
          /\ (Len(myGames') > Len(myGames) /\ EntriesOf(myGames, n) # {}) =>
                 Cardinality(EntriesOf(myGames', n))
                    = Cardinality(EntriesOf(myGames, n))
          /\ Cardinality(EntriesOf(myGames', n))
                < Cardinality(EntriesOf(myGames, n)) =>
                 EntriesOf(myGames', n) = {}]_vars

====
